---- MODULE Spec2Model ----
(***************************************************************************)
(* A model of the bonsai chess core: the Board Model (BoardBackend), the   *)
(* Move Generator and the Position Controller (BoardFrontend).             *)
(*                                                                         *)
(* Values.  A Square is a Piece record [team, kind]; the empty square      *)
(* (Rust's None) is NoPiece.  Coordinates are pairs <<row, column>>, the   *)
(* absent coordinate (None) is NoCoordinates.  Vec<T> is a sequence.       *)
(***************************************************************************)
EXTENDS Integers, Sequences, FiniteSets, TLC

BOARD_ROWS == 8
BOARD_COLUMNS == 8

White == "White"
Black == "Black"

NoPiece == [team |-> "None", kind |-> "None"]
NoCoordinates == <<-1, -1>>
NoSpecialMove == [tag |-> "None", side |-> "None", coord |-> NoCoordinates, promo |-> "None"]
NoOutcome == [kind |-> "None", winner |-> "None", reason |-> "None"]

Piece_new(team, kind) == [team |-> team, kind |-> kind]

Team_opposite(team) == IF team = White THEN Black ELSE White

(* Coordinates::new: Some only inside the 8x8 board. *)
Coordinates_new(row, column) ==
    IF row \in 0..(BOARD_ROWS - 1) /\ column \in 0..(BOARD_COLUMNS - 1)
    THEN <<row, column>>
    ELSE NoCoordinates

Row(c) == c[1]
Column(c) == c[2]

LocatedPiece_new(piece, position) == [piece |-> piece, position |-> position]

Ply_new(starting_square, ending_square, piece_moved, piece_captured, special_move) ==
    [starting_square |-> starting_square, ending_square |-> ending_square,
     piece_moved |-> piece_moved, piece_captured |-> piece_captured,
     special_move |-> special_move]

Castle(side) == [NoSpecialMove EXCEPT !.tag = "Castle", !.side = side]
EnPassant(coordinates) == [NoSpecialMove EXCEPT !.tag = "EnPassant", !.coord = coordinates]
Promotion(valid_promotion) == [NoSpecialMove EXCEPT !.tag = "Promotion", !.promo = valid_promotion]

(* Kind::from_valid_promotions: the four promotion choices name their kind. *)
from_valid_promotions(vp) ==
    CASE vp = "Queen" -> "Queen"
      [] vp = "Rook" -> "Rook"
      [] vp = "Bishop" -> "Bishop"
      [] vp = "Knight" -> "Knight"

(***************************************************************************)
(* Directions: (delta_row, delta_column).                                  *)
(***************************************************************************)
UP == <<-1, 0>>
DOWN == <<1, 0>>
LEFT == <<0, -1>>
RIGHT == <<0, 1>>
DIAGONALLY_UP_LEFT == <<-1, -1>>
DIAGONALLY_UP_RIGHT == <<-1, 1>>
DIAGONALLY_DOWN_LEFT == <<1, -1>>
DIAGONALLY_DOWN_RIGHT == <<1, 1>>
L_UP_LEFT == <<-2, -1>>
L_UP_RIGHT == <<-2, 1>>
L_DOWN_LEFT == <<2, -1>>
L_DOWN_RIGHT == <<2, 1>>
L_LEFT_UP == <<-1, -2>>
L_LEFT_DOWN == <<1, -2>>
L_RIGHT_UP == <<-1, 2>>
L_RIGHT_DOWN == <<1, 2>>

KNIGHT_DIRECTIONS ==
    <<L_UP_LEFT, L_UP_RIGHT, L_DOWN_LEFT, L_DOWN_RIGHT,
      L_LEFT_UP, L_LEFT_DOWN, L_RIGHT_UP, L_RIGHT_DOWN>>
KING_DIRECTIONS ==
    <<UP, DOWN, LEFT, RIGHT, DIAGONALLY_UP_LEFT, DIAGONALLY_UP_RIGHT,
      DIAGONALLY_DOWN_LEFT, DIAGONALLY_DOWN_RIGHT>>
DIAGONAL_DIRECTIONS ==
    <<DIAGONALLY_UP_LEFT, DIAGONALLY_UP_RIGHT, DIAGONALLY_DOWN_LEFT, DIAGONALLY_DOWN_RIGHT>>
ORTHOGONAL_DIRECTIONS == <<UP, DOWN, LEFT, RIGHT>>

(***************************************************************************)
(* BoardBackend: [grid, white_king_location, black_king_location].         *)
(***************************************************************************)
get(b, coordinates) == b.grid[Row(coordinates)][Column(coordinates)]

(* A faulty set: the cached king locations are not kept up. *)
set_without_king_update(b, piece, coordinates) ==
    [b EXCEPT !.grid[Row(coordinates)][Column(coordinates)] = piece]

set(b, piece, coordinates) ==
    [b EXCEPT
       !.grid[Row(coordinates)][Column(coordinates)] = piece,
       !.white_king_location =
           IF piece.kind = "King" /\ piece.team = White THEN coordinates ELSE @,
       !.black_king_location =
           IF piece.kind = "King" /\ piece.team = Black THEN coordinates ELSE @]

unset(b, coordinates) ==
    [b EXCEPT !.grid[Row(coordinates)][Column(coordinates)] = NoPiece]

LONG_CASTLE_ROOK_START_COLUMN == 0
LONG_CASTLE_ROOK_END_COLUMN == 3
SHORT_CASTLE_ROOK_START_COLUMN == 7
SHORT_CASTLE_ROOK_END_COLUMN == 5

(* The rook relocation shared by make_move and undo_move: only when both   *)
(* coordinates exist and a piece stands on rook_start.                     *)
RelocateRook(b, rook_start, rook_end) ==
    IF rook_start # NoCoordinates /\ rook_end # NoCoordinates
       /\ get(b, rook_start) # NoPiece
    THEN unset(set(b, get(b, rook_start), rook_end), rook_start)
    ELSE b

(* A faulty make_move: the side effects of special moves are left out. *)
make_move_without_side_effect(b, ply) ==
    set(unset(b, ply.starting_square), ply.piece_moved, ply.ending_square)

backend_make_move(b, ply) ==
    LET b1 == set(unset(b, ply.starting_square), ply.piece_moved, ply.ending_square)
        sm == ply.special_move
        row == Row(ply.ending_square)
    IN  CASE sm.tag = "EnPassant" -> unset(b1, sm.coord)
          [] sm.tag = "Castle" ->
               IF sm.side = "Short"
               THEN RelocateRook(b1, Coordinates_new(row, SHORT_CASTLE_ROOK_START_COLUMN),
                                 Coordinates_new(row, SHORT_CASTLE_ROOK_END_COLUMN))
               ELSE RelocateRook(b1, Coordinates_new(row, LONG_CASTLE_ROOK_START_COLUMN),
                                 Coordinates_new(row, LONG_CASTLE_ROOK_END_COLUMN))
          [] sm.tag = "Promotion" ->
               set(b1, Piece_new(ply.piece_moved.team, from_valid_promotions(sm.promo)),
                   ply.ending_square)
          [] OTHER -> b1

(* A faulty undo_move: the ending square is emptied whatever was captured  *)
(* and no special move is reverted.                                        *)
undo_move_dropping_capture(b, ply) ==
    unset(set(b, ply.piece_moved, ply.starting_square), ply.ending_square)

backend_undo_move(b, ply) ==
    LET sm == ply.special_move
        b1 == set(b, ply.piece_moved, ply.starting_square)
        b2 == IF sm.tag = "EnPassant" THEN unset(b1, ply.ending_square)
              ELSE IF ply.piece_captured # NoPiece
                   THEN set(b1, ply.piece_captured, ply.ending_square)
                   ELSE unset(b1, ply.ending_square)
        row == Row(ply.ending_square)
    IN  CASE sm.tag = "Castle" ->
               IF sm.side = "Short"
               THEN RelocateRook(b2, Coordinates_new(row, SHORT_CASTLE_ROOK_END_COLUMN),
                                 Coordinates_new(row, SHORT_CASTLE_ROOK_START_COLUMN))
               ELSE RelocateRook(b2, Coordinates_new(row, LONG_CASTLE_ROOK_END_COLUMN),
                                 Coordinates_new(row, LONG_CASTLE_ROOK_START_COLUMN))
          [] sm.tag = "EnPassant" ->
               set(b2, Piece_new(Team_opposite(ply.piece_moved.team), "Pawn"), sm.coord)
          [] OTHER -> b2

(* Row-major list of all coordinates, the iteration order of filter_pieces. *)
AllCoordinates ==
    [i \in 1..(BOARD_ROWS * BOARD_COLUMNS) |->
        <<(i - 1) \div BOARD_COLUMNS, (i - 1) % BOARD_COLUMNS>>]

filter_pieces(b, teams) ==
    LET Occupied(c) == get(b, c).team \in teams
        cs == SelectSeq(AllCoordinates, Occupied)
    IN  [i \in 1..Len(cs) |-> LocatedPiece_new(get(b, cs[i]), cs[i])]

get_all_pieces(b) == filter_pieces(b, {White, Black})
get_white_pieces(b) == filter_pieces(b, {White})
get_black_pieces(b) == filter_pieces(b, {Black})

(* One step from location by a fixed offset holds an attacker of that kind. *)
OffsetAttack(b, location, directions, attacker_team, kind) ==
    \E i \in 1..Len(directions) :
        LET target == Coordinates_new(Row(location) + directions[i][1],
                                      Column(location) + directions[i][2])
        IN  /\ target # NoCoordinates
            /\ get(b, target) = Piece_new(attacker_team, kind)

(* A ray from location: the first occupied square decides. *)
RECURSIVE RayAttack(_, _, _, _, _, _)
RayAttack(b, location, direction, step, attacker_team, kinds) ==
    LET target == Coordinates_new(Row(location) + direction[1] * step,
                                  Column(location) + direction[2] * step)
    IN  IF target = NoCoordinates THEN FALSE
        ELSE IF get(b, target) # NoPiece
             THEN get(b, target).team = attacker_team /\ get(b, target).kind \in kinds
             ELSE RayAttack(b, location, direction, step + 1, attacker_team, kinds)

(* A faulty probe: the pawns are looked for in the direction they move. *)
is_square_under_attack_with_forward_pawns(b, location, attacker_team) ==
    \/ OffsetAttack(b, location, KNIGHT_DIRECTIONS, attacker_team, "Knight")
    \/ OffsetAttack(b, location, KING_DIRECTIONS, attacker_team, "King")
    \/ OffsetAttack(b, location,
                    IF attacker_team = White
                    THEN <<DIAGONALLY_UP_LEFT, DIAGONALLY_UP_RIGHT>>
                    ELSE <<DIAGONALLY_DOWN_LEFT, DIAGONALLY_DOWN_RIGHT>>,
                    attacker_team, "Pawn")
    \/ \E i \in 1..Len(ORTHOGONAL_DIRECTIONS) :
          RayAttack(b, location, ORTHOGONAL_DIRECTIONS[i], 1, attacker_team, {"Rook", "Queen"})
    \/ \E i \in 1..Len(DIAGONAL_DIRECTIONS) :
          RayAttack(b, location, DIAGONAL_DIRECTIONS[i], 1, attacker_team, {"Bishop", "Queen"})

is_square_under_attack(b, location, attacker_team) ==
    \/ OffsetAttack(b, location, KNIGHT_DIRECTIONS, attacker_team, "Knight")
    \/ OffsetAttack(b, location, KING_DIRECTIONS, attacker_team, "King")
    \/ OffsetAttack(b, location,
                    IF attacker_team = White
                    THEN <<DIAGONALLY_DOWN_LEFT, DIAGONALLY_DOWN_RIGHT>>
                    ELSE <<DIAGONALLY_UP_LEFT, DIAGONALLY_UP_RIGHT>>,
                    attacker_team, "Pawn")
    \/ \E i \in 1..Len(ORTHOGONAL_DIRECTIONS) :
          RayAttack(b, location, ORTHOGONAL_DIRECTIONS[i], 1, attacker_team, {"Rook", "Queen"})
    \/ \E i \in 1..Len(DIAGONAL_DIRECTIONS) :
          RayAttack(b, location, DIAGONAL_DIRECTIONS[i], 1, attacker_team, {"Bishop", "Queen"})

(***************************************************************************)
(* Move Generator.  Every generator returns the moves in the order the     *)
(* code pushes them.                                                       *)
(***************************************************************************)
RECURSIVE Flatten(_)
Flatten(seqs) == IF seqs = <<>> THEN <<>> ELSE Head(seqs) \o Flatten(Tail(seqs))

(* The 'distance_loop of slide for one direction, from the given step on. *)
RECURSIVE SlideDirection(_, _, _, _, _)
SlideDirection(what_to_slide, distance, direction, b, step) ==
    IF step > distance THEN <<>>
    ELSE LET end == Coordinates_new(Row(what_to_slide.position) + direction[1] * step,
                                    Column(what_to_slide.position) + direction[2] * step)
         IN  IF end = NoCoordinates THEN <<>>
             ELSE LET target_square == get(b, end)
                      potential_move == Ply_new(what_to_slide.position, end,
                                                what_to_slide.piece, target_square,
                                                NoSpecialMove)
                  IN  IF target_square = NoPiece
                      THEN <<potential_move>>
                           \o SlideDirection(what_to_slide, distance, direction, b, step + 1)
                      ELSE IF target_square.team # what_to_slide.piece.team
                           THEN <<potential_move>>
                           ELSE <<>>

slide(what_to_slide, distance, directions, b) ==
    Flatten([i \in 1..Len(directions) |->
                SlideDirection(what_to_slide, distance, directions[i], b, 1)])

knight_pseudo_legal_moves(what_to_move, b) == slide(what_to_move, 1, KNIGHT_DIRECTIONS, b)
rook_pseudo_legal_moves(what_to_move, b) == slide(what_to_move, 7, ORTHOGONAL_DIRECTIONS, b)
bishop_pseudo_legal_moves(what_to_move, b) == slide(what_to_move, 7, DIAGONAL_DIRECTIONS, b)
queen_pseudo_legal_moves(what_to_move, b) ==
    rook_pseudo_legal_moves(what_to_move, b) \o bishop_pseudo_legal_moves(what_to_move, b)

WHITE_PAWN_STARTING_ROW == 6
BLACK_PAWN_STARTING_ROW == 1
WHITE_PAWN_PROMOTION_ROW == 0
BLACK_PAWN_PROMOTION_ROW == 7

get_promotions ==
    <<Promotion("Queen"), Promotion("Rook"), Promotion("Bishop"), Promotion("Knight")>>

(* The pushes of a pawn: promotion x4, or single push and double push. *)
PawnPushes(what_to_move, b, direction, starting_row, promotion_row) ==
    LET current_position == what_to_move.position
        one_forward_coords ==
            Coordinates_new(Row(current_position) + direction, Column(current_position))
        two_forward_coords ==
            Coordinates_new(Row(current_position) + 2 * direction, Column(current_position))
    IN  IF one_forward_coords = NoCoordinates \/ get(b, one_forward_coords) # NoPiece
        THEN <<>>
        ELSE IF Row(one_forward_coords) = promotion_row
        THEN [i \in 1..Len(get_promotions) |->
                 Ply_new(current_position, one_forward_coords, what_to_move.piece,
                         NoPiece, get_promotions[i])]
        ELSE <<Ply_new(current_position, one_forward_coords, what_to_move.piece,
                       NoPiece, NoSpecialMove)>>
             \o (IF /\ Row(current_position) = starting_row
                    /\ two_forward_coords # NoCoordinates
                    /\ get(b, two_forward_coords) = NoPiece
                 THEN <<Ply_new(current_position, two_forward_coords, what_to_move.piece,
                                NoPiece, NoSpecialMove)>>
                 ELSE <<>>)

(* One diagonal of a pawn: the en-passant branch, then the standard capture. *)
PawnDiagonal(what_to_move, b, en_passant_target, direction, promotion_row, col_offset) ==
    LET current_position == what_to_move.position
        capture_coords == Coordinates_new(Row(current_position) + direction,
                                          Column(current_position) + col_offset)
        captured_pawn_position ==
            Coordinates_new(Row(current_position), Column(capture_coords))
        target_piece == get(b, capture_coords)
    IN  IF capture_coords = NoCoordinates THEN <<>>
        ELSE (IF en_passant_target # NoCoordinates /\ capture_coords = en_passant_target
              THEN <<Ply_new(current_position, capture_coords, what_to_move.piece,
                             Piece_new(Team_opposite(what_to_move.piece.team), "Pawn"),
                             EnPassant(captured_pawn_position))>>
              ELSE <<>>)
             \o (IF target_piece # NoPiece /\ target_piece.team # what_to_move.piece.team
                 THEN IF Row(capture_coords) = promotion_row
                      THEN [i \in 1..Len(get_promotions) |->
                               Ply_new(current_position, capture_coords, what_to_move.piece,
                                       target_piece, get_promotions[i])]
                      ELSE <<Ply_new(current_position, capture_coords, what_to_move.piece,
                                     target_piece, NoSpecialMove)>>
                 ELSE <<>>)

pawn_pseudo_legal_moves(what_to_move, b, en_passant_target) ==
    LET white == what_to_move.piece.team = White
        direction == IF white THEN -1 ELSE 1
        starting_row == IF white THEN WHITE_PAWN_STARTING_ROW ELSE BLACK_PAWN_STARTING_ROW
        promotion_row == IF white THEN WHITE_PAWN_PROMOTION_ROW ELSE BLACK_PAWN_PROMOTION_ROW
    IN  PawnPushes(what_to_move, b, direction, starting_row, promotion_row)
        \o PawnDiagonal(what_to_move, b, en_passant_target, direction, promotion_row, -1)
        \o PawnDiagonal(what_to_move, b, en_passant_target, direction, promotion_row, 1)

(***************************************************************************)
(* CastlingRights: four flags.                                             *)
(***************************************************************************)
CastlingRights_new ==
    [white_king_side |-> TRUE, white_queen_side |-> TRUE,
     black_king_side |-> TRUE, black_queen_side |-> TRUE]
no_rights ==
    [white_king_side |-> FALSE, white_queen_side |-> FALSE,
     black_king_side |-> FALSE, black_queen_side |-> FALSE]

FILE_A == 0
FILE_B == 1
FILE_C == 2
FILE_D == 3
FILE_F == 5
FILE_G == 6
FILE_H == 7

(* A faulty get_castling_moves: the squares the king crosses may be        *)
(* attacked.                                                               *)
get_castling_moves_through_check(what_to_move, b, castling_rights) ==
    LET ally == what_to_move.piece.team
        castling_row == IF ally = White THEN 7 ELSE 0
        to_coordinates(column) == Coordinates_new(castling_row, column)
        can_castle_short == IF ally = White THEN castling_rights.white_king_side
                            ELSE castling_rights.black_king_side
        can_castle_long == IF ally = White THEN castling_rights.white_queen_side
                           ELSE castling_rights.black_queen_side
        short_ok ==
            /\ get(b, to_coordinates(FILE_F)) = NoPiece
            /\ get(b, to_coordinates(FILE_G)) = NoPiece
            /\ get(b, to_coordinates(FILE_H)) = Piece_new(ally, "Rook")
        long_ok ==
            /\ get(b, to_coordinates(FILE_B)) = NoPiece
            /\ get(b, to_coordinates(FILE_C)) = NoPiece
            /\ get(b, to_coordinates(FILE_D)) = NoPiece
            /\ get(b, to_coordinates(FILE_A)) = Piece_new(ally, "Rook")
    IN  IF is_square_under_attack(b, what_to_move.position, Team_opposite(ally)) THEN <<>>
        ELSE (IF can_castle_short /\ short_ok
              THEN <<Ply_new(what_to_move.position, to_coordinates(FILE_G),
                             what_to_move.piece, NoPiece, Castle("Short"))>>
              ELSE <<>>)
             \o (IF can_castle_long /\ long_ok
                 THEN <<Ply_new(what_to_move.position, to_coordinates(FILE_C),
                                what_to_move.piece, NoPiece, Castle("Long"))>>
                 ELSE <<>>)

get_castling_moves(what_to_move, b, castling_rights) ==
    LET ally == what_to_move.piece.team
        enemy == Team_opposite(ally)
        castling_row == IF ally = White THEN 7 ELSE 0
        to_coordinates(column) == Coordinates_new(castling_row, column)
        can_castle_short == IF ally = White THEN castling_rights.white_king_side
                            ELSE castling_rights.black_king_side
        can_castle_long == IF ally = White THEN castling_rights.white_queen_side
                           ELSE castling_rights.black_queen_side
        short_ok ==
            /\ get(b, to_coordinates(FILE_F)) = NoPiece
            /\ get(b, to_coordinates(FILE_G)) = NoPiece
            /\ ~is_square_under_attack(b, to_coordinates(FILE_F), enemy)
            /\ ~is_square_under_attack(b, to_coordinates(FILE_G), enemy)
            /\ get(b, to_coordinates(FILE_H)) = Piece_new(ally, "Rook")
        long_ok ==
            /\ get(b, to_coordinates(FILE_B)) = NoPiece
            /\ get(b, to_coordinates(FILE_C)) = NoPiece
            /\ get(b, to_coordinates(FILE_D)) = NoPiece
            /\ ~is_square_under_attack(b, to_coordinates(FILE_C), enemy)
            /\ ~is_square_under_attack(b, to_coordinates(FILE_D), enemy)
            /\ get(b, to_coordinates(FILE_A)) = Piece_new(ally, "Rook")
    IN  IF is_square_under_attack(b, what_to_move.position, enemy) THEN <<>>
        ELSE (IF can_castle_short /\ short_ok
              THEN <<Ply_new(what_to_move.position, to_coordinates(FILE_G),
                             what_to_move.piece, NoPiece, Castle("Short"))>>
              ELSE <<>>)
             \o (IF can_castle_long /\ long_ok
                 THEN <<Ply_new(what_to_move.position, to_coordinates(FILE_C),
                                what_to_move.piece, NoPiece, Castle("Long"))>>
                 ELSE <<>>)

king_pseudo_legal_moves(what_to_move, b, castling_rights) ==
    slide(what_to_move, 1, KING_DIRECTIONS, b)
    \o (IF castling_rights # no_rights
        THEN get_castling_moves(what_to_move, b, castling_rights)
        ELSE <<>>)

generate_pseudo_legal_moves(what_to_move, b, en_passant_target, castling_rights) ==
    CASE what_to_move.piece.kind = "King" ->
            king_pseudo_legal_moves(what_to_move, b, castling_rights)
      [] what_to_move.piece.kind = "Queen" -> queen_pseudo_legal_moves(what_to_move, b)
      [] what_to_move.piece.kind = "Rook" -> rook_pseudo_legal_moves(what_to_move, b)
      [] what_to_move.piece.kind = "Bishop" -> bishop_pseudo_legal_moves(what_to_move, b)
      [] what_to_move.piece.kind = "Knight" -> knight_pseudo_legal_moves(what_to_move, b)
      [] what_to_move.piece.kind = "Pawn" ->
            pawn_pseudo_legal_moves(what_to_move, b, en_passant_target)

(***************************************************************************)
(* MoveCounter: [fifty_move_rule_counter (a stack), halfmove, fullmove].   *)
(* The counters are usize: saturating_add(1) stops at usize::MAX and       *)
(* saturating_sub(1) at 0.  The largest integer of the model stands for    *)
(* usize::MAX; the counters of the games stay far below it.                *)
(***************************************************************************)
USIZE_MAX == 2147483647

saturating_add(n) == IF n < USIZE_MAX THEN n + 1 ELSE USIZE_MAX

saturating_sub(n) == IF n > 0 THEN n - 1 ELSE 0

MoveCounter_new == [fifty_move_rule_counter |-> <<0>>, halfmove |-> 0, fullmove |-> 1]

MoveCounter_from(fifty_move_rule_counter, halfmove, fullmove) ==
    [fifty_move_rule_counter |-> <<fifty_move_rule_counter>>,
     halfmove |-> halfmove, fullmove |-> fullmove]

(* A faulty tick: the fifty-move counter is never reset. *)
tick_never_resetting(mc, reset_fifty_move_rule_counter) ==
    [fifty_move_rule_counter |->
         IF mc.fifty_move_rule_counter # <<>>
         THEN [mc.fifty_move_rule_counter EXCEPT ![Len(mc.fifty_move_rule_counter)] = @ + 1]
         ELSE mc.fifty_move_rule_counter,
     halfmove |-> mc.halfmove + 1,
     fullmove |-> IF (mc.halfmove + 1) % 2 = 0 THEN mc.fullmove + 1 ELSE mc.fullmove]

tick(mc, reset_fifty_move_rule_counter) ==
    LET stack == mc.fifty_move_rule_counter
        halfmove == saturating_add(mc.halfmove)
    IN  [fifty_move_rule_counter |->
             IF reset_fifty_move_rule_counter THEN Append(stack, 0)
             ELSE IF stack # <<>>
                  THEN [stack EXCEPT ![Len(stack)] = saturating_add(@)]
             ELSE stack,
         halfmove |-> halfmove,
         fullmove |-> IF halfmove % 2 = 0 THEN saturating_add(mc.fullmove)
                      ELSE mc.fullmove]

(* A faulty untick: the stack is never popped. *)
untick_without_pop(mc) ==
    LET stack == mc.fifty_move_rule_counter
        halfmove == saturating_sub(mc.halfmove)
    IN  [fifty_move_rule_counter |->
             IF stack = <<>> THEN stack
             ELSE IF stack[Len(stack)] > 0 THEN [stack EXCEPT ![Len(stack)] = @ - 1]
             ELSE stack,
         halfmove |-> halfmove,
         fullmove |-> IF halfmove % 2 = 0 THEN saturating_sub(mc.fullmove)
                      ELSE mc.fullmove]

untick(mc) ==
    LET stack == mc.fifty_move_rule_counter
        halfmove == saturating_sub(mc.halfmove)
    IN  [fifty_move_rule_counter |->
             IF stack = <<>> THEN stack
             ELSE IF stack[Len(stack)] > 0 THEN [stack EXCEPT ![Len(stack)] = @ - 1]
             ELSE IF Len(stack) > 1 THEN SubSeq(stack, 1, Len(stack) - 1)
             ELSE stack,
         halfmove |-> halfmove,
         fullmove |-> IF halfmove % 2 = 0 THEN saturating_sub(mc.fullmove)
                      ELSE mc.fullmove]

fifty_move_rule_counter(mc) ==
    IF mc.fifty_move_rule_counter = <<>> THEN 0
    ELSE mc.fifty_move_rule_counter[Len(mc.fifty_move_rule_counter)]

(***************************************************************************)
(* Rules.                                                                  *)
(***************************************************************************)
CAN_CLAIM_FIFTY_MOVE_RULE_THRESHOLD == 100
FORCED_FIFTY_MOVE_RULE_THRESHOLD == 150
CAN_CLAIM_THREEFOLD_REPETITION_THRESHOLD == 3
FORCED_THREEFOLD_REPETITION_THRESHOLD == 5

Win(winner, reason) == [kind |-> "Win", winner |-> winner, reason |-> reason]
Draw(reason) == [kind |-> "Draw", winner |-> "None", reason |-> reason]

(***************************************************************************)
(* TranspositionTable (bonsai-engine): a map from PositionSnapshot to      *)
(* Entry.  An Entry of the table is a record; NoEntry is get's None.       *)
(***************************************************************************)
(* Option<Ply>: None *)
NoPly == Ply_new(NoCoordinates, NoCoordinates, NoPiece, NoPiece, NoSpecialMove)

NodeTypes == {"Exact", "Upper", "Lower"}

Entry(score, depth, node_type, best_move) ==
    [score |-> score, depth |-> depth, node_type |-> node_type, best_move |-> best_move]

NoEntry == [score |-> 0, depth |-> -1, node_type |-> "None", best_move |-> NoPly]

TranspositionTable_new == [snapshot \in {} |-> NoEntry]

TranspositionTable_get(table, snapshot) ==
    IF snapshot \in DOMAIN table THEN table[snapshot] ELSE NoEntry

(* HashMap::insert *)
HashMap_insert(table, snapshot, entry) ==
    [k \in DOMAIN table \cup {snapshot} |-> IF k = snapshot THEN entry ELSE table[k]]

(* insert without the comparison of depths. *)
TranspositionTable_insert_always(table, snapshot, entry) ==
    HashMap_insert(table, snapshot, entry)

TranspositionTable_insert(table, snapshot, entry) ==
    IF TranspositionTable_get(table, snapshot) # NoEntry
    THEN IF entry.depth >= TranspositionTable_get(table, snapshot).depth
         THEN HashMap_insert(table, snapshot, entry)
         ELSE table
    ELSE HashMap_insert(table, snapshot, entry)

(***************************************************************************)
(* BoardFrontend: a record s of the fields backend, turn,                  *)
(* castling_rights_log, en_passant_target, move_counter, move_log,         *)
(* repetition_table (a function from PositionSnapshot to its count),       *)
(* outcome, in_check.  A method that takes &mut self is an operator from   *)
(* the record to the record after the call.                                *)
(***************************************************************************)
EmptyTable == [snapshot \in {} |-> 0]

(* castling_rights_log.last().copied().unwrap_or(no_rights()) *)
current_castling_rights(s) ==
    IF s.castling_rights_log = <<>> THEN no_rights
    ELSE s.castling_rights_log[Len(s.castling_rights_log)]

create_snapshot(s) ==
    [pieces_positions |-> s.backend.grid,
     turn |-> s.turn,
     remaining_castling_rights |-> current_castling_rights(s),
     en_passant |-> s.en_passant_target]

(* The first king of the side to move in row-major order is probed; Head   *)
(* of the empty list is the code's expect("The King is missing").          *)
is_in_check(s) ==
    LET pieces == IF s.turn = White THEN get_white_pieces(s.backend)
                  ELSE get_black_pieces(s.backend)
        IsKing(lp) == lp.piece.kind = "King"
        king_pos == Head(SelectSeq(pieces, IsKing)).position
    IN  is_square_under_attack(s.backend, king_pos, Team_opposite(s.turn))

get_pseudo_legal_moves(s) ==
    LET pieces == IF s.turn = White THEN get_white_pieces(s.backend)
                  ELSE get_black_pieces(s.backend)
    IN  Flatten([i \in 1..Len(pieces) |->
                    generate_pseudo_legal_moves(pieces[i], s.backend, s.en_passant_target,
                                                current_castling_rights(s))])

(* A faulty loop: every candidate is accepted without a test. *)
LegalMovesLoop_accepting_all(s, pseudo_legal_moves, i, legal_moves) ==
    [self |-> s, legal_moves |-> pseudo_legal_moves]

(* The loop of get_legal_moves from candidate i on: make the move on the   *)
(* backend, test the king, undo it on the backend, in place.               *)
RECURSIVE LegalMovesLoop(_, _, _, _)
LegalMovesLoop(s, pseudo_legal_moves, i, legal_moves) ==
    IF i > Len(pseudo_legal_moves)
    THEN [self |-> s, legal_moves |-> legal_moves]
    ELSE LET made == [s EXCEPT !.backend = backend_make_move(@, pseudo_legal_moves[i])]
             safe == ~is_in_check(made)
             undone == [made EXCEPT !.backend = backend_undo_move(@, pseudo_legal_moves[i])]
         IN  LegalMovesLoop(undone, pseudo_legal_moves, i + 1,
                            IF safe THEN Append(legal_moves, pseudo_legal_moves[i])
                            ELSE legal_moves)

(* A faulty get_legal_moves: the last candidate is left on the board. *)
get_legal_moves_leaving_last(s) ==
    LET pseudo_legal_moves == get_pseudo_legal_moves(s)
        after == LegalMovesLoop(s, pseudo_legal_moves, 1, <<>>)
    IN  IF pseudo_legal_moves = <<>> THEN after
        ELSE [after EXCEPT !.self.backend =
                 backend_make_move(@, pseudo_legal_moves[Len(pseudo_legal_moves)])]

(* get_legal_moves(&mut self): the returned list and self after the call. *)
get_legal_moves(s) == LegalMovesLoop(s, get_pseudo_legal_moves(s), 1, <<>>)

abs_diff(a, b) == IF a >= b THEN a - b ELSE b - a

(* A faulty target: the square is taken on White's side of the start       *)
(* whatever the team.                                                      *)
get_en_passant_target_of_white(ply) ==
    IF /\ ply.piece_moved.kind = "Pawn"
       /\ abs_diff(Row(ply.starting_square), Row(ply.ending_square)) = 2
    THEN Coordinates_new(Row(ply.starting_square) - 1, Column(ply.starting_square))
    ELSE NoCoordinates

get_en_passant_target(ply) ==
    IF /\ ply.piece_moved.kind = "Pawn"
       /\ abs_diff(Row(ply.starting_square), Row(ply.ending_square)) = 2
    THEN Coordinates_new(IF ply.piece_moved.team = White
                         THEN Row(ply.starting_square) - 1
                         ELSE Row(ply.starting_square) + 1,
                         Column(ply.starting_square))
    ELSE NoCoordinates

(* check_then_ban without its two queen-side arms. *)
check_then_ban_king_side(castling_rights, x, y) ==
    CASE x = 0 /\ y = 7 -> [castling_rights EXCEPT !.black_king_side = FALSE]
      [] x = 7 /\ y = 7 -> [castling_rights EXCEPT !.white_king_side = FALSE]
      [] OTHER -> castling_rights

(* check_then_ban: the corner (x, y) loses its right. *)
check_then_ban(castling_rights, x, y) ==
    CASE x = 0 /\ y = 0 -> [castling_rights EXCEPT !.black_queen_side = FALSE]
      [] x = 0 /\ y = 7 -> [castling_rights EXCEPT !.black_king_side = FALSE]
      [] x = 7 /\ y = 0 -> [castling_rights EXCEPT !.white_queen_side = FALSE]
      [] x = 7 /\ y = 7 -> [castling_rights EXCEPT !.white_king_side = FALSE]
      [] OTHER -> castling_rights

(* update_castling_rights working on CastlingRights::new() in place of the *)
(* last entry of the log.                                                  *)
update_castling_rights_from_new(s, ply) ==
    LET r0 == CastlingRights_new
        r1 == IF ply.piece_moved.kind = "King"
              THEN IF ply.piece_moved.team = White
                   THEN [r0 EXCEPT !.white_king_side = FALSE, !.white_queen_side = FALSE]
                   ELSE [r0 EXCEPT !.black_king_side = FALSE, !.black_queen_side = FALSE]
              ELSE r0
        r2 == IF ply.piece_moved.kind = "Rook"
              THEN check_then_ban(r1, Row(ply.starting_square), Column(ply.starting_square))
              ELSE r1
        r3 == IF ply.piece_captured # NoPiece /\ ply.piece_captured.kind = "Rook"
              THEN check_then_ban(r2, Row(ply.ending_square), Column(ply.ending_square))
              ELSE r2
    IN  [s EXCEPT !.castling_rights_log = Append(@, r3)]

(* A faulty update: the capture of a rook on its corner is not looked at. *)
update_castling_rights_without_captures(s, ply) ==
    LET r0 == current_castling_rights(s)
        r1 == IF ply.piece_moved.kind = "King"
              THEN IF ply.piece_moved.team = White
                   THEN [r0 EXCEPT !.white_king_side = FALSE, !.white_queen_side = FALSE]
                   ELSE [r0 EXCEPT !.black_king_side = FALSE, !.black_queen_side = FALSE]
              ELSE r0
        r2 == IF ply.piece_moved.kind = "Rook"
              THEN check_then_ban(r1, Row(ply.starting_square), Column(ply.starting_square))
              ELSE r1
    IN  [s EXCEPT !.castling_rights_log = Append(@, r2)]

update_castling_rights(s, ply) ==
    LET r0 == current_castling_rights(s)
        r1 == IF ply.piece_moved.kind = "King"
              THEN IF ply.piece_moved.team = White
                   THEN [r0 EXCEPT !.white_king_side = FALSE, !.white_queen_side = FALSE]
                   ELSE [r0 EXCEPT !.black_king_side = FALSE, !.black_queen_side = FALSE]
              ELSE r0
        r2 == IF ply.piece_moved.kind = "Rook"
              THEN check_then_ban(r1, Row(ply.starting_square), Column(ply.starting_square))
              ELSE r1
        r3 == IF ply.piece_captured # NoPiece /\ ply.piece_captured.kind = "Rook"
              THEN check_then_ban(r2, Row(ply.ending_square), Column(ply.ending_square))
              ELSE r2
    IN  [s EXCEPT !.castling_rights_log = Append(@, r3)]

change_turn(s) == [s EXCEPT !.turn = Team_opposite(@)]

(* repetition_table.entry(snapshot).or_insert(0) += 1 *)
IncrementRepetitions(table, snapshot) ==
    IF snapshot \in DOMAIN table
    THEN [table EXCEPT ![snapshot] = @ + 1]
    ELSE [x \in DOMAIN table \cup {snapshot} |-> IF x = snapshot THEN 1 ELSE table[x]]

(* A decrement that keeps an entry that has come down to zero. *)
DecrementRepetitions_keeping_zero(table, snapshot) ==
    IF snapshot \notin DOMAIN table THEN table
    ELSE [table EXCEPT ![snapshot] = @ - 1]

(* The occupied entry is decremented and removed at zero. *)
DecrementRepetitions(table, snapshot) ==
    IF snapshot \notin DOMAIN table THEN table
    ELSE IF table[snapshot] - 1 = 0
    THEN [x \in DOMAIN table \ {snapshot} |-> table[x]]
    ELSE [table EXCEPT ![snapshot] = @ - 1]

IsDeadPosition(b) ==
    LET pieces == get_all_pieces(b)
    IN  \A i \in 1..Len(pieces) : pieces[i].piece.kind = "King"

(* The steps of make_move, in the order of the code.  Each takes the       *)
(* BoardFrontend left by the step before it.                               *)

(* backend.make_move(ply); move_log.push; en_passant_target *)
ApplyPly(s, ply) ==
    [s EXCEPT !.backend = backend_make_move(@, ply),
              !.move_log = Append(@, ply),
              !.en_passant_target = get_en_passant_target(ply)]

(* self.in_check = self.is_in_check() *)
UpdateInCheck(s) == [s EXCEPT !.in_check = is_in_check(s)]

(* The snapshot's count is incremented; at the forced threshold the game   *)
(* is drawn unless an outcome is already set.                              *)
ForcedRepetition(s, snapshot) ==
    IF s.repetition_table[snapshot] >= FORCED_THREEFOLD_REPETITION_THRESHOLD
       /\ s.outcome = NoOutcome
    THEN [s EXCEPT !.outcome = Draw("ThreefoldRepetition")]
    ELSE s

CountRepetition(s, snapshot) ==
    ForcedRepetition([s EXCEPT !.repetition_table = IncrementRepetitions(@, snapshot)],
                     snapshot)

(* Only kings left: the outcome is overwritten without a test. *)
DetectDeadPosition(s) ==
    IF IsDeadPosition(s.backend)
    THEN [s EXCEPT !.outcome = Draw("DeadPosition")]
    ELSE s

(* A faulty threshold test: the draw is recorded over an outcome already set. *)
ForcedFiftyMoveRule_overwriting(s) ==
    IF fifty_move_rule_counter(s.move_counter) >= FORCED_FIFTY_MOVE_RULE_THRESHOLD
    THEN [s EXCEPT !.outcome = Draw("FiftyMoveRule")]
    ELSE s

ForcedFiftyMoveRule(s) ==
    IF fifty_move_rule_counter(s.move_counter) >= FORCED_FIFTY_MOVE_RULE_THRESHOLD
       /\ s.outcome = NoOutcome
    THEN [s EXCEPT !.outcome = Draw("FiftyMoveRule")]
    ELSE s

TickMoveCounter(s, ply) ==
    ForcedFiftyMoveRule(
        [s EXCEPT !.move_counter =
            tick(@, ply.piece_moved.kind = "Pawn" \/ ply.piece_captured # NoPiece)])

(* A faulty end-of-game test: no legal move is always a stalemate. *)
DetectMate_ignoring_check(after) ==
    IF after.legal_moves = <<>>
    THEN [after.self EXCEPT !.outcome = Draw("Stalemate")]
    ELSE after.self

(* after is the result of get_legal_moves: no legal move is checkmate when *)
(* the side to move is in check and stalemate otherwise, whatever outcome  *)
(* was set before.                                                         *)
DetectMate(after) ==
    IF after.legal_moves = <<>>
    THEN IF is_in_check(after.self)
         THEN [after.self EXCEPT !.outcome = Win(Team_opposite(after.self.turn), "Checkmate")]
         ELSE [after.self EXCEPT !.outcome = Draw("Stalemate")]
    ELSE after.self

MoveMade(s, ply) ==
    UpdateInCheck(change_turn(update_castling_rights(ApplyPly(s, ply), ply)))

MoveCounted(s, ply) ==
    TickMoveCounter(DetectDeadPosition(CountRepetition(s, create_snapshot(s))), ply)

(* A faulty make_move: the move is made whatever the outcome. *)
make_move_unguarded(s, ply) ==
    DetectMate(get_legal_moves(MoveCounted(MoveMade(s, ply), ply)))

make_move(s, ply) ==
    IF s.outcome # NoOutcome THEN s
    ELSE DetectMate(get_legal_moves(MoveCounted(MoveMade(s, ply), ply)))

undo_move(s, ply) ==
    LET s1 == [s EXCEPT !.outcome = NoOutcome]
        s2 == [s1 EXCEPT !.repetition_table = DecrementRepetitions(@, create_snapshot(s1))]
        s3 == [s2 EXCEPT !.backend = backend_undo_move(@, ply),
                         !.en_passant_target =
                             IF s2.move_log # <<>>
                             THEN get_en_passant_target(s2.move_log[Len(s2.move_log)])
                             ELSE NoCoordinates,
                         !.move_counter = untick(@),
                         !.castling_rights_log =
                             IF Len(@) > 1 THEN SubSeq(@, 1, Len(@) - 1) ELSE @]
        s4 == change_turn(s3)
    IN  [s4 EXCEPT !.in_check = is_in_check(s4)]

undo_last_move(s) ==
    IF s.move_log = <<>> THEN s
    ELSE undo_move([s EXCEPT !.move_log = SubSeq(@, 1, Len(@) - 1)],
                   s.move_log[Len(s.move_log)])

resign(s, resigning_player) ==
    [s EXCEPT !.outcome = Win(Team_opposite(resigning_player), "Resign")]
win_on_time(s, flagged_player) ==
    [s EXCEPT !.outcome = Win(Team_opposite(flagged_player), "WinOnTime")]
forfeit(s, forfeited_player) ==
    [s EXCEPT !.outcome = Win(Team_opposite(forfeited_player), "Forfeit")]
draw_by_forfeit(s) == [s EXCEPT !.outcome = Draw("Forfeit")]
draw_by_agreement(s) == [s EXCEPT !.outcome = Draw("DrawByAgreement")]
draw_on_time(s) == [s EXCEPT !.outcome = Draw("DrawOnTime")]

can_claim_threefold_repetition(s) ==
    LET current_snapshot == create_snapshot(s)
    IN  /\ current_snapshot \in DOMAIN s.repetition_table
        /\ s.repetition_table[current_snapshot] >= CAN_CLAIM_THREEFOLD_REPETITION_THRESHOLD

can_claim_fifty_move_rule(s) ==
    fifty_move_rule_counter(s.move_counter) >= CAN_CLAIM_FIFTY_MOVE_RULE_THRESHOLD

(* A faulty claim: the draw is recorded even when the claim is refused. *)
claim_threefold_repetition_recording(s) ==
    [self |-> [s EXCEPT !.outcome = Draw("ThreefoldRepetition")],
     result |-> IF can_claim_threefold_repetition(s) THEN "Ok" ELSE "Err"]

(* The claims return [self, result]: result is "Ok" or "Err". *)
claim_threefold_repetition(s) ==
    IF ~can_claim_threefold_repetition(s)
    THEN [self |-> s, result |-> "Err"]
    ELSE [self |-> [s EXCEPT !.outcome = Draw("ThreefoldRepetition")], result |-> "Ok"]

claim_fifty_move_rule(s) ==
    IF ~can_claim_fifty_move_rule(s)
    THEN [self |-> s, result |-> "Err"]
    ELSE [self |-> [s EXCEPT !.outcome = Draw("FiftyMoveRule")], result |-> "Ok"]

(***************************************************************************)
(* Construction.                                                           *)
(***************************************************************************)
BackRank(team) ==
    [column \in 0..(BOARD_COLUMNS - 1) |->
        Piece_new(team, <<"Rook", "Knight", "Bishop", "Queen",
                          "King", "Bishop", "Knight", "Rook">>[column + 1])]

STARTING_POSITION ==
    [row \in 0..(BOARD_ROWS - 1) |->
        CASE row = 0 -> BackRank(Black)
          [] row = 1 -> [column \in 0..(BOARD_COLUMNS - 1) |-> Piece_new(Black, "Pawn")]
          [] row = 6 -> [column \in 0..(BOARD_COLUMNS - 1) |-> Piece_new(White, "Pawn")]
          [] row = 7 -> BackRank(White)
          [] OTHER -> [column \in 0..(BOARD_COLUMNS - 1) |-> NoPiece]]

BoardBackend_from_starting_position ==
    [grid |-> STARTING_POSITION,
     white_king_location |-> Coordinates_new(7, 4),
     black_king_location |-> Coordinates_new(0, 4)]

(* BoardBackend::new panics unless each team has exactly one king. *)
BoardBackend_new_panics(grid) ==
    \E team \in {White, Black} :
        Cardinality({c \in (0..7) \X (0..7) : grid[c[1]][c[2]] = Piece_new(team, "King")}) # 1

BoardBackend_new(grid) ==
    LET KingOf(team) ==
            CHOOSE c \in (0..7) \X (0..7) : grid[c[1]][c[2]] = Piece_new(team, "King")
    IN  [grid |-> grid,
         white_king_location |-> KingOf(White),
         black_king_location |-> KingOf(Black)]

from_starting_position ==
    [backend |-> BoardBackend_from_starting_position,
     turn |-> White,
     castling_rights_log |-> <<CastlingRights_new>>,
     en_passant_target |-> NoCoordinates,
     move_counter |-> MoveCounter_new,
     move_log |-> <<>>,
     repetition_table |-> EmptyTable,
     outcome |-> NoOutcome,
     in_check |-> FALSE]

(***************************************************************************)
(* BoardFrontend::from_fen.  A notation string is given by its fields      *)
(* (split_whitespace): the placement as its '/'-separated ranks, each a    *)
(* sequence of characters; the side, castling and en-passant fields as     *)
(* sequences of characters; the two clocks as the numbers they parse to.   *)
(***************************************************************************)
to_digit(c) ==
    CASE c = "0" -> 0 [] c = "1" -> 1 [] c = "2" -> 2 [] c = "3" -> 3 [] c = "4" -> 4
      [] c = "5" -> 5 [] c = "6" -> 6 [] c = "7" -> 7 [] c = "8" -> 8 [] c = "9" -> 9
      [] OTHER -> -1

is_uppercase(c) == c \in {"P", "N", "B", "R", "Q", "K"}

(* match c.to_ascii_lowercase(): any other letter panics (no CASE arm). *)
KindOfChar(c) ==
    CASE c \in {"p", "P"} -> "Pawn"
      [] c \in {"n", "N"} -> "Knight"
      [] c \in {"b", "B"} -> "Bishop"
      [] c \in {"r", "R"} -> "Rook"
      [] c \in {"q", "Q"} -> "Queen"
      [] c \in {"k", "K"} -> "King"

(* One rank of the placement from character i on, at column_index. *)
RECURSIVE ParseRank(_, _, _, _)
ParseRank(row_str, i, column_index, rank) ==
    IF i > Len(row_str) THEN rank
    ELSE IF to_digit(row_str[i]) >= 0
    THEN ParseRank(row_str, i + 1, column_index + to_digit(row_str[i]), rank)
    ELSE IF column_index < BOARD_COLUMNS
    THEN ParseRank(row_str, i + 1, column_index + 1,
                   [rank EXCEPT ![column_index] =
                       Piece_new(IF is_uppercase(row_str[i]) THEN White ELSE Black,
                                 KindOfChar(row_str[i]))])
    ELSE ParseRank(row_str, i + 1, column_index, rank)

ParsePlacement(placement) ==
    [row \in 0..(BOARD_ROWS - 1) |->
        IF row + 1 <= Len(placement)
        THEN ParseRank(placement[row + 1], 1, 0,
                       [column \in 0..(BOARD_COLUMNS - 1) |-> NoPiece])
        ELSE [column \in 0..(BOARD_COLUMNS - 1) |-> NoPiece]]

contains(str, c) == \E i \in 1..Len(str) : str[i] = c

FileIndex(file) ==
    CASE file = "a" -> 0 [] file = "b" -> 1 [] file = "c" -> 2 [] file = "d" -> 3
      [] file = "e" -> 4 [] file = "f" -> 5 [] file = "g" -> 6 [] file = "h" -> 7
      [] OTHER -> 99

ParseEnPassant(en_passant_str) ==
    IF en_passant_str = <<"-">> \/ Len(en_passant_str) # 2 THEN NoCoordinates
    ELSE Coordinates_new(IF to_digit(en_passant_str[2]) >= 0
                         THEN BOARD_ROWS - to_digit(en_passant_str[2])
                         ELSE 99,
                         FileIndex(en_passant_str[1]))

from_fen(fen) ==
    LET castling == fen.castling
        board ==
            [backend |-> BoardBackend_new(ParsePlacement(fen.placement)),
             turn |-> IF fen.active_color = <<"w">> THEN White ELSE Black,
             castling_rights_log |->
                 <<IF castling = <<"-">> THEN no_rights
                   ELSE [white_king_side |-> contains(castling, "K"),
                         white_queen_side |-> contains(castling, "Q"),
                         black_king_side |-> contains(castling, "k"),
                         black_queen_side |-> contains(castling, "q")]>>,
             en_passant_target |-> ParseEnPassant(fen.en_passant),
             move_counter |-> MoveCounter_from(fen.halfmove_clock, 0, fen.fullmove_clock),
             move_log |-> <<>>,
             repetition_table |-> EmptyTable,
             outcome |-> NoOutcome,
             in_check |-> FALSE]
        checked == [board EXCEPT !.in_check = is_in_check(board)]
    IN  [checked EXCEPT !.repetition_table = IncrementRepetitions(@, create_snapshot(checked))]

Fen(placement, active_color, castling, en_passant, halfmove_clock, fullmove_clock) ==
    [placement |-> placement, active_color |-> active_color, castling |-> castling,
     en_passant |-> en_passant, halfmove_clock |-> halfmove_clock,
     fullmove_clock |-> fullmove_clock]

(***************************************************************************)
(* Positions loaded from notation.                                         *)
(***************************************************************************)
(* 2r4k/8/5K2/8/8/8/8/5R2 w - - 0 1
   The specification's checkmate scenario: the rook can check on h1. *)
FEN_MateInOne ==
    Fen(<<<<"2", "r", "4", "k">>,
         <<"8">>,
         <<"5", "K", "2">>,
         <<"8">>,
         <<"8">>,
         <<"8">>,
         <<"8">>,
         <<"5", "R", "2">>>>,
        <<"w">>, <<"-">>, <<"-">>, 0, 1)

(* 7k/8/6K1/8/8/8/8/5R2 w - - 149 1
   Rf8 mates and Rg1 stalemates; the clock is one short of the forced draw. *)
FEN_BackRankMate ==
    Fen(<<<<"7", "k">>,
         <<"8">>,
         <<"6", "K", "1">>,
         <<"8">>,
         <<"8">>,
         <<"8">>,
         <<"8">>,
         <<"5", "R", "2">>>>,
        <<"w">>, <<"-">>, <<"-">>, 149, 1)

(* 7k/7P/7K/8/8/8/8/8 w - - 0 1
   Kg6 stalemates; after Kg5 or Kh5 Black may take the pawn, leaving bare kings. *)
FEN_Stalemate ==
    Fen(<<<<"7", "k">>,
         <<"7", "P">>,
         <<"7", "K">>,
         <<"8">>,
         <<"8">>,
         <<"8">>,
         <<"8">>,
         <<"8">>>>,
        <<"w">>, <<"-">>, <<"-">>, 0, 1)

(* 4k3/8/8/8/8/8/8/4K3 w - - 0 1
   King against king. *)
FEN_BareKings ==
    Fen(<<<<"4", "k", "3">>,
         <<"8">>,
         <<"8">>,
         <<"8">>,
         <<"8">>,
         <<"8">>,
         <<"8">>,
         <<"4", "K", "3">>>>,
        <<"w">>, <<"-">>, <<"-">>, 0, 1)

(* 4k3/8/8/8/3pP3/8/8/4K3 b - e3 0 1
   Black may capture the e4 pawn en passant on e3. *)
FEN_EnPassant ==
    Fen(<<<<"4", "k", "3">>,
         <<"8">>,
         <<"8">>,
         <<"8">>,
         <<"3", "p", "P", "3">>,
         <<"8">>,
         <<"8">>,
         <<"4", "K", "3">>>>,
        <<"b">>, <<"-">>, <<"e", "3">>, 0, 1)

(* 1n2k3/P7/8/8/8/8/8/4K3 w - - 99 40
   Promotion with and without capture; the clock is one short of the claim. *)
FEN_Promotion ==
    Fen(<<<<"1", "n", "2", "k", "3">>,
         <<"P", "7">>,
         <<"8">>,
         <<"8">>,
         <<"8">>,
         <<"8">>,
         <<"8">>,
         <<"4", "K", "3">>>>,
        <<"w">>, <<"-">>, <<"-">>, 99, 40)

(* 4k3/8/8/8/8/8/P6P/R3K2R w KQ - 0 1
   White may castle on either side. *)
FEN_CastlingWhite ==
    Fen(<<<<"4", "k", "3">>,
         <<"8">>,
         <<"8">>,
         <<"8">>,
         <<"8">>,
         <<"8">>,
         <<"P", "6", "P">>,
         <<"R", "3", "K", "2", "R">>>>,
        <<"w">>, <<"K", "Q">>, <<"-">>, 0, 1)

(* r3k2r/p6p/8/8/8/8/8/4K3 b kq - 0 1
   Black may castle on either side. *)
FEN_CastlingBlack ==
    Fen(<<<<"r", "3", "k", "2", "r">>,
         <<"p", "6", "p">>,
         <<"8">>,
         <<"8">>,
         <<"8">>,
         <<"8">>,
         <<"8">>,
         <<"4", "K", "3">>>>,
        <<"b">>, <<"k", "q">>, <<"-">>, 0, 1)

(* 4k3/4r3/8/8/8/8/4B3/4K3 w - - 0 1
   The bishop is pinned to its king. *)
FEN_Pinned ==
    Fen(<<<<"4", "k", "3">>,
         <<"4", "r", "3">>,
         <<"8">>,
         <<"8">>,
         <<"8">>,
         <<"8">>,
         <<"4", "B", "3">>,
         <<"4", "K", "3">>>>,
        <<"w">>, <<"-">>, <<"-">>, 0, 1)

(* k1b5/1p1p4/1P1P4/8/8/1p1p4/1P1P4/K1B5 w - - 92 60
   Each side can only shuffle its king between two squares. *)
FEN_Fortress ==
    Fen(<<<<"k", "1", "b", "5">>,
         <<"1", "p", "1", "p", "4">>,
         <<"1", "P", "1", "P", "4">>,
         <<"8">>,
         <<"8">>,
         <<"1", "p", "1", "p", "4">>,
         <<"1", "P", "1", "P", "4">>,
         <<"K", "1", "B", "5">>>>,
        <<"w">>, <<"-">>, <<"-">>, 92, 60)

(* r3k2r/3p4/8/8/8/8/3P4/R3K2R w KQkq - 0 1
   Both sides hold both rights; the rooks see each other along the a and h
   files. *)
FEN_CastlingBoth ==
    Fen(<<<<"r", "3", "k", "2", "r">>,
         <<"3", "p", "4">>,
         <<"8">>,
         <<"8">>,
         <<"8">>,
         <<"8">>,
         <<"3", "P", "4">>,
         <<"R", "3", "K", "2", "R">>>>,
        <<"w">>, <<"K", "Q", "k", "q">>, <<"-">>, 0, 1)

(***************************************************************************)
(* board/fen.rs: the lexer and the parser of the notation, and to_fen.     *)
(* A notation string is the sequence of its characters.  An Option<FenToken>*)
(* is a record with a tag, "None" for no token; a token that the lexer     *)
(* cannot build because num_str.parse().unwrap() panics has the tag        *)
(* "Panic".  The Result of from_fen has the tag "Ok", "Err" or "Panic".    *)
(***************************************************************************)
Token(tag, value) == [tag |-> tag, value |-> value]
NoToken == Token("None", "")

Lexer_new(fen) == [input |-> fen, current_field |-> 0]

(* A lexer step: the token and the lexer after it. *)
Lexed(token, lexer) == [token |-> token, lexer |-> lexer]

(* self.input.next()? of the one-character fields: the character is       *)
(* consumed whether or not it makes a token.                               *)
Consumed(lexer) == [lexer EXCEPT !.input = Tail(@)]

lex_piece_placement(lexer) ==
    IF lexer.input = <<>> THEN Lexed(NoToken, lexer)
    ELSE LET c == Head(lexer.input)
         IN  Lexed(CASE c = "/" -> Token("RankSeparator", "")
                     [] c \in {"1", "2", "3", "4", "5", "6", "7", "8"} ->
                            Token("EmptySquares", to_digit(c))
                     [] c \in {"P", "N", "B", "R", "Q", "K"} ->
                            Token("Piece", Piece_new(White, KindOfChar(c)))
                     [] c \in {"p", "n", "b", "r", "q", "k"} ->
                            Token("Piece", Piece_new(Black, KindOfChar(c)))
                     [] OTHER -> NoToken,
                   Consumed(lexer))

lex_side_to_move(lexer) ==
    IF lexer.input = <<>> THEN Lexed(NoToken, lexer)
    ELSE LET c == Head(lexer.input)
         IN  Lexed(CASE c = "w" -> Token("SideToMove", White)
                     [] c = "b" -> Token("SideToMove", Black)
                     [] OTHER -> NoToken,
                   Consumed(lexer))

lex_castling(lexer) ==
    IF lexer.input = <<>> THEN Lexed(NoToken, lexer)
    ELSE LET c == Head(lexer.input)
         IN  Lexed(CASE c = "-" -> Token("NoCastling", "")
                     [] c = "K" -> Token("CastlingEnabled", "white_king_side")
                     [] c = "Q" -> Token("CastlingEnabled", "white_queen_side")
                     [] c = "k" -> Token("CastlingEnabled", "black_king_side")
                     [] c = "q" -> Token("CastlingEnabled", "black_queen_side")
                     [] OTHER -> NoToken,
                   Consumed(lexer))

lex_en_passant(lexer) ==
    IF lexer.input = <<>> THEN Lexed(NoToken, lexer)
    ELSE LET c == Head(lexer.input)
         IN  Lexed(CASE c \in {"a", "b", "c", "d", "e", "f", "g", "h"} ->
                            Token("EnPassantFile", c)
                     [] c \in {"3", "6"} -> Token("EnPassantRank", c)
                     [] c = "-" -> Token("NoEnPassant", "")
                     [] OTHER -> NoToken,
                   Consumed(lexer))

is_ascii_digit(c) == to_digit(c) >= 0

(* The length of the longest prefix of digits. *)
RECURSIVE DigitsPrefix(_)
DigitsPrefix(input) ==
    IF input # <<>> /\ is_ascii_digit(Head(input)) THEN 1 + DigitsPrefix(Tail(input))
    ELSE 0

RECURSIVE StripZeros(_)
StripZeros(num_str) ==
    IF num_str # <<>> /\ Head(num_str) = "0" THEN StripZeros(Tail(num_str)) ELSE num_str

(* The digits of usize::MAX, 2^64 - 1, on the 64-bit targets. *)
USIZE_MAX_DIGITS ==
    <<"1", "8", "4", "4", "6", "7", "4", "4", "0", "7",
      "3", "7", "0", "9", "5", "5", "1", "6", "1", "5">>

(* a <= b for two digit strings of one length. *)
RECURSIVE DigitsLeq(_, _)
DigitsLeq(a, b) ==
    IF a = <<>> THEN TRUE
    ELSE IF to_digit(Head(a)) # to_digit(Head(b)) THEN to_digit(Head(a)) < to_digit(Head(b))
    ELSE DigitsLeq(Tail(a), Tail(b))

(* str::parse::<usize> is Ok: the number is at most usize::MAX. *)
ParsesAsUsize(num_str) ==
    LET digits == StripZeros(num_str)
    IN  \/ Len(digits) < Len(USIZE_MAX_DIGITS)
        \/ Len(digits) = Len(USIZE_MAX_DIGITS) /\ DigitsLeq(digits, USIZE_MAX_DIGITS)

(* The number a digit string denotes. *)
RECURSIVE DigitsValue(_)
DigitsValue(num_str) ==
    IF num_str = <<>> THEN 0
    ELSE DigitsValue(SubSeq(num_str, 1, Len(num_str) - 1)) * 10
             + to_digit(num_str[Len(num_str)])

(* The common body of lex_halfmove_clock and lex_fullmove_counter. *)
lex_clock(lexer, tag) ==
    LET n == DigitsPrefix(lexer.input)
        num_str == SubSeq(lexer.input, 1, n)
        rest == [lexer EXCEPT !.input = SubSeq(@, n + 1, Len(@))]
    IN  IF n = 0 THEN Lexed(NoToken, lexer)
        ELSE IF ParsesAsUsize(num_str)
        THEN Lexed(Token(tag, DigitsValue(StripZeros(num_str))), rest)
        ELSE Lexed(Token("Panic", ""), rest)

lex_halfmove_clock(lexer) == lex_clock(lexer, "Halfmove")
lex_fullmove_counter(lexer) == lex_clock(lexer, "Fullmove")

next_token(lexer) ==
    IF lexer.input # <<>> /\ Head(lexer.input) = " "
    THEN Lexed(Token("WhiteSpace", ""),
               [input |-> Tail(lexer.input), current_field |-> lexer.current_field + 1])
    ELSE CASE lexer.current_field = 0 -> lex_piece_placement(lexer)
           [] lexer.current_field = 1 -> lex_side_to_move(lexer)
           [] lexer.current_field = 2 -> lex_castling(lexer)
           [] lexer.current_field = 3 -> lex_en_passant(lexer)
           [] lexer.current_field = 4 -> lex_halfmove_clock(lexer)
           [] lexer.current_field = 5 -> lex_fullmove_counter(lexer)
           [] OTHER -> Lexed(NoToken, lexer)

PositionSnapshot_new(pieces_positions, team, remaining_castling_rights, en_passant) ==
    [pieces_positions |-> pieces_positions,
     turn |-> team,
     remaining_castling_rights |-> remaining_castling_rights,
     en_passant |-> en_passant]

FenOk(position, clocks) ==
    [tag |-> "Ok", error |-> "", position |-> position, move_counter |-> clocks]
FenErr(error) ==
    [tag |-> "Err", error |-> error,
     position |-> PositionSnapshot_new(<<>>, "None", no_rights, NoCoordinates),
     move_counter |-> MoveCounter_new]
FenPanic == [FenErr("") EXCEPT !.tag = "Panic"]

(* The end of from_fen, from the computation of total_halfmoves on. *)
FromFenFinish(grid, team, castling, en_passant, halfmove_clock, fullmove_number) ==
    LET total_halfmoves ==
            (saturating_sub(fullmove_number) * 2) + (IF team = Black THEN 1 ELSE 0)
    IN  FenOk(PositionSnapshot_new(grid, team, castling, en_passant),
              MoveCounter_from(halfmove_clock, total_halfmoves, fullmove_number))

(* 6. Fullmove Counter: t is the token after the halfmove clock. *)
FromFenFullmove(t, grid, team, castling, en_passant, halfmove_clock) ==
    IF t.token.tag = "None"
    THEN FromFenFinish(grid, team, castling, en_passant, halfmove_clock, 1)
    ELSE IF t.token.tag = "Panic" THEN FenPanic
    ELSE IF t.token.tag = "WhiteSpace"
    THEN LET number == next_token(t.lexer)
         IN  IF number.token.tag = "Fullmove"
             THEN FromFenFinish(grid, team, castling, en_passant, halfmove_clock,
                                number.token.value)
             ELSE IF number.token.tag = "Panic" THEN FenPanic
             ELSE FenErr("InvalidClock")
    ELSE FenErr("UnexpectedToken")

(* 5. Halfmove Clock: t is the token after the en-passant field. *)
FromFenHalfmove(t, grid, team, castling, en_passant) ==
    IF t.token.tag = "None"
    THEN FromFenFullmove(next_token(t.lexer), grid, team, castling, en_passant, 0)
    ELSE IF t.token.tag = "WhiteSpace"
    THEN LET number == next_token(t.lexer)
         IN  IF number.token.tag = "Halfmove"
             THEN FromFenFullmove(next_token(number.lexer), grid, team, castling,
                                  en_passant, number.token.value)
             ELSE IF number.token.tag = "Panic" THEN FenPanic
             ELSE FenErr("InvalidClock")
    ELSE FenErr("UnexpectedToken")

(* 4. En Passant: t is the token after the castling field. *)
FromFenEnPassant(t, grid, team, castling) ==
    CASE t.token.tag = "NoEnPassant" ->
             FromFenHalfmove(next_token(t.lexer), grid, team, castling, NoCoordinates)
      [] t.token.tag = "EnPassantFile" ->
             LET rank == next_token(t.lexer)
             IN  IF rank.token.tag = "EnPassantRank"
                 THEN FromFenHalfmove(next_token(rank.lexer), grid, team, castling,
                          Coordinates_new(8 - to_digit(rank.token.value),
                                          FileIndex(t.token.value)))
                 ELSE FenErr("InvalidEnPassant")
      [] t.token.tag = "None" -> FenErr("UnexpectedEndOfInput")
      [] OTHER -> FenErr("UnexpectedToken")

enable(castling, right) == [castling EXCEPT ![right] = TRUE]

(* 3. Castling Rights: the loop, t its next token. *)
RECURSIVE FromFenCastling(_, _, _, _)
FromFenCastling(t, grid, team, castling) ==
    CASE t.token.tag = "NoCastling" ->
             FromFenCastling(next_token(t.lexer), grid, team, castling)
      [] t.token.tag = "CastlingEnabled" ->
             FromFenCastling(next_token(t.lexer), grid, team,
                             enable(castling, t.token.value))
      [] t.token.tag = "WhiteSpace" ->
             FromFenEnPassant(next_token(t.lexer), grid, team, castling)
      [] t.token.tag = "None" -> FenErr("UnexpectedEndOfInput")
      [] OTHER -> FenErr("UnexpectedToken")

(* 2. Side to Move and the space after it. *)
FromFenSide(t, grid) ==
    CASE t.token.tag = "SideToMove" ->
             LET space == next_token(t.lexer)
             IN  CASE space.token.tag = "WhiteSpace" ->
                          FromFenCastling(next_token(space.lexer), grid,
                                          t.token.value, no_rights)
                   [] space.token.tag = "None" -> FenErr("UnexpectedEndOfInput")
                   [] OTHER -> FenErr("UnexpectedToken")
      [] t.token.tag = "None" -> FenErr("UnexpectedEndOfInput")
      [] OTHER -> FenErr("UnexpectedToken")

(* 1. Piece Placement: the loop, t its next token. *)
RECURSIVE FromFenPlacement(_, _, _, _)
FromFenPlacement(t, grid, row, col) ==
    CASE t.token.tag = "Piece" ->
             IF row > 7 \/ col > 7 THEN FenErr("InvalidPiecePlacement")
             ELSE FromFenPlacement(next_token(t.lexer),
                                   [grid EXCEPT ![row][col] = t.token.value],
                                   row, col + 1)
      [] t.token.tag = "EmptySquares" ->
             IF row > 7 \/ col + t.token.value > 8 THEN FenErr("InvalidPiecePlacement")
             ELSE FromFenPlacement(next_token(t.lexer), grid, row, col + t.token.value)
      [] t.token.tag = "RankSeparator" ->
             IF col # 8 THEN FenErr("InvalidPiecePlacement")
             ELSE FromFenPlacement(next_token(t.lexer), grid, row + 1, 0)
      [] t.token.tag = "WhiteSpace" ->
             IF row # 7 \/ col # 8 THEN FenErr("InvalidPiecePlacement")
             ELSE FromFenSide(next_token(t.lexer), grid)
      [] t.token.tag = "None" -> FenErr("UnexpectedEndOfInput")
      [] OTHER -> FenErr("UnexpectedToken")

(* fen::from_fen (BoardFrontend::from_fen, above, is another parser). *)
fen_from_fen(fen) ==
    FromFenPlacement(next_token(Lexer_new(fen)),
                     [row \in 0..7 |-> [column \in 0..7 |-> NoPiece]], 0, 0)

(* usize::to_string *)
RECURSIVE to_string(_)
to_string(n) ==
    LET digit == <<"0", "1", "2", "3", "4", "5", "6", "7", "8", "9">>[(n % 10) + 1]
    IN  IF n < 10 THEN <<digit>> ELSE to_string(n \div 10) \o <<digit>>

(* Display for Piece. *)
Piece_to_string(piece) ==
    LET upper == CASE piece.kind = "King" -> "K" [] piece.kind = "Queen" -> "Q"
                   [] piece.kind = "Rook" -> "R" [] piece.kind = "Bishop" -> "B"
                   [] piece.kind = "Knight" -> "N" [] piece.kind = "Pawn" -> "P"
        lower == CASE piece.kind = "King" -> "k" [] piece.kind = "Queen" -> "q"
                   [] piece.kind = "Rook" -> "r" [] piece.kind = "Bishop" -> "b"
                   [] piece.kind = "Knight" -> "n" [] piece.kind = "Pawn" -> "p"
    IN  <<IF piece.team = White THEN upper ELSE lower>>

to_algebraic_notation(coordinates) ==
    <<<<"a", "b", "c", "d", "e", "f", "g", "h">>[coordinates[2] + 1],
      <<"8", "7", "6", "5", "4", "3", "2", "1">>[coordinates[1] + 1]>>

(* The inner loop of to_fen over one row, from column on. *)
RECURSIVE ToFenRow(_, _, _)
ToFenRow(row_contents, column, empty_count) ==
    IF column > 7
    THEN IF empty_count > 0 THEN to_string(empty_count) ELSE <<>>
    ELSE IF row_contents[column] # NoPiece
    THEN (IF empty_count > 0 THEN to_string(empty_count) ELSE <<>>)
             \o Piece_to_string(row_contents[column])
             \o ToFenRow(row_contents, column + 1, 0)
    ELSE ToFenRow(row_contents, column + 1, empty_count + 1)

to_fen(position, clocks) ==
    LET grid == position.pieces_positions
        rights == position.remaining_castling_rights
        castling_str ==
            (IF rights.white_king_side THEN <<"K">> ELSE <<>>)
                \o (IF rights.white_queen_side THEN <<"Q">> ELSE <<>>)
                \o (IF rights.black_king_side THEN <<"k">> ELSE <<>>)
                \o (IF rights.black_queen_side THEN <<"q">> ELSE <<>>)
    IN  Flatten([row_index \in 1..8 |->
                    ToFenRow(grid[row_index - 1], 0, 0)
                        \o (IF row_index - 1 < 7 THEN <<"/">> ELSE <<>>)])
            \o <<" ">>
            \o <<IF position.turn = White THEN "w" ELSE "b">>
            \o <<" ">>
            \o (IF castling_str = <<>> THEN <<"-">> ELSE castling_str)
            \o <<" ">>
            \o (IF position.en_passant # NoCoordinates
                THEN to_algebraic_notation(position.en_passant) ELSE <<"-">>)
            \o <<" ">>
            \o to_string(fifty_move_rule_counter(clocks))
            \o <<" ">>
            \o to_string(clocks.fullmove)

(***************************************************************************)
(* Evaluation (bonsai-engine).  isize is modelled with 32 bits: every      *)
(* score the search computes is below 2^31 in absolute value, and the      *)
(* bounds of the window are only compared, negated and offset by one.      *)
(***************************************************************************)
ISIZE_MAX == 2147483647
ISIZE_MIN == -ISIZE_MAX - 1

STARTING_DEPTH == 1
MAX_DEPTH == 50
SCORING_PROMOTING_PAWNS_BONUS == 800
CHECKMATE_SCORE == 1000000
DRAW_SCORE == 0

max(a, b) == IF a >= b THEN a ELSE b
min(a, b) == IF a <= b THEN a ELSE b

get_piece_value(kind) ==
    CASE kind = "Pawn" -> 100
      [] kind = "Knight" -> 320
      [] kind = "Bishop" -> 330
      [] kind = "Rook" -> 500
      [] kind = "Queen" -> 900
      [] kind = "King" -> 20000

score_move(ply) ==
    (IF ply.piece_captured # NoPiece
     THEN 10 * get_piece_value(ply.piece_captured.kind)
              - get_piece_value(ply.piece_moved.kind)
     ELSE 0)
    + (IF ply.special_move.tag = "Promotion" THEN SCORING_PROMOTING_PAWNS_BONUS ELSE 0)

(* The piece-square tables of the pawns and the knights, indexed by        *)
(* row * BOARD_COLUMNS + column, and the vertical mirror of an index.  The *)
(* positions searched below hold neither pawns nor knights.                *)
PAWN_TABLE == [sq_index \in 0..(BOARD_ROWS * BOARD_COLUMNS - 1) |-> 0]
KNIGHT_TABLE == [sq_index \in 0..(BOARD_ROWS * BOARD_COLUMNS - 1) |-> 0]
flip_square(sq_index) ==
    ((BOARD_ROWS - 1 - (sq_index \div BOARD_COLUMNS)) * BOARD_COLUMNS)
        + (sq_index % BOARD_COLUMNS)

(* material + position_bonus of one located piece, signed for state.turn *)
PieceScore(lp, turn) ==
    LET sq_index == Row(lp.position) * BOARD_COLUMNS + Column(lp.position)
        position_bonus ==
            CASE lp.piece.kind = "Pawn" ->
                     IF lp.piece.team = White THEN PAWN_TABLE[sq_index]
                     ELSE PAWN_TABLE[flip_square(sq_index)]
              [] lp.piece.kind = "Knight" ->
                     IF lp.piece.team = White THEN KNIGHT_TABLE[sq_index]
                     ELSE KNIGHT_TABLE[flip_square(sq_index)]
              [] OTHER -> 0
        total_val == get_piece_value(lp.piece.kind) + position_bonus
    IN  IF lp.piece.team = turn THEN total_val ELSE -total_val

RECURSIVE SumScores(_, _, _)
SumScores(pieces, i, turn) ==
    IF i > Len(pieces) THEN 0
    ELSE PieceScore(pieces[i], turn) + SumScores(pieces, i + 1, turn)

evaluate_position(state) ==
    IF state.outcome # NoOutcome
    THEN IF state.outcome.kind = "Win"
         THEN IF state.outcome.winner = state.turn
              THEN CHECKMATE_SCORE ELSE -CHECKMATE_SCORE
         ELSE DRAW_SCORE
    ELSE SumScores(get_all_pieces(state.backend), 1, state.turn)

(***************************************************************************)
(* Search (bonsai-engine).  alpha_beta and quiescence take the position by *)
(* &mut and the table by &mut: each is an operator to a record of the      *)
(* score returned, the move left in best_move_found (NoPly when it was not *)
(* written), the position after the call and the table after the call.     *)
(***************************************************************************)
SearchResult(score, best_move_found, state, table) ==
    [score |-> score, best_move_found |-> best_move_found,
     state |-> state, tt |-> table]

(* The rank of the i-th element in a stable ascending sort by keys. *)
SortRank(keys, i) ==
    1 + Cardinality({j \in 1..Len(keys) :
                        keys[j] < keys[i] \/ (keys[j] = keys[i] /\ j < i)})

(* moves.sort_by_cached_key: stable, ascending. *)
sort_by_cached_key(moves, keys) ==
    [p \in 1..Len(moves) |->
        moves[CHOOSE i \in 1..Len(moves) : SortRank(keys, i) = p]]

(* moves.retain(|m| m.piece_captured().is_some()) *)
IsCapture(ply) == ply.piece_captured # NoPiece

RECURSIVE quiescence(_, _, _)
RECURSIVE QuiescenceLoop(_, _, _, _, _)
RECURSIVE alpha_beta(_, _, _, _, _)
RECURSIVE AlphaBetaLoop(_, _, _, _, _, _, _, _, _)

(* What the loop of quiescence does once the recursive call has returned. *)
QuiescenceAfterChild(child, moves, i, alpha, beta) ==
    IF -child.score >= beta
    THEN SearchResult(beta, NoPly, undo_last_move(child.state), child.tt)
    ELSE QuiescenceLoop(undo_last_move(child.state), moves, i + 1,
                        max(alpha, -child.score), beta)

QuiescenceLoop(state, moves, i, alpha, beta) ==
    IF i > Len(moves)
    THEN SearchResult(alpha, NoPly, state, TranspositionTable_new)
    ELSE QuiescenceAfterChild(quiescence(make_move(state, moves[i]), -beta, -alpha),
                              moves, i, alpha, beta)

QuiescenceCaptures(lm, alpha, beta) ==
    LET captures == SelectSeq(lm.legal_moves, IsCapture)
        keys == [i \in 1..Len(captures) |-> -score_move(captures[i])]
    IN  QuiescenceLoop(lm.self, sort_by_cached_key(captures, keys), 1, alpha, beta)

quiescence(state, alpha, beta) ==
    LET stand_pat == evaluate_position(state)
    IN  IF stand_pat >= beta
        THEN SearchResult(beta, NoPly, state, TranspositionTable_new)
        ELSE QuiescenceCaptures(get_legal_moves(state), max(alpha, stand_pat), beta)

(* The score of a position whose outcome is set, the reverse of it for the *)
(* side that did not win.                                                  *)
TerminalScore_unsigned(state, depth) ==
    IF state.outcome.kind = "Win" THEN CHECKMATE_SCORE + depth ELSE DRAW_SCORE

(* A faulty score of a won position: the remaining depth is left out. *)
TerminalScore_without_depth(state, depth) ==
    IF state.outcome.kind = "Win"
    THEN IF state.outcome.winner = state.turn
         THEN CHECKMATE_SCORE
         ELSE -CHECKMATE_SCORE
    ELSE DRAW_SCORE

TerminalScore(state, depth) ==
    IF state.outcome.kind = "Win"
    THEN IF state.outcome.winner = state.turn
         THEN CHECKMATE_SCORE + depth
         ELSE -(CHECKMATE_SCORE + depth)
    ELSE DRAW_SCORE

(* The body of the for loop once the recursive call has returned. *)
AlphaBetaAfterChild(child, moves, i, depth, alpha, beta, best_score, best_move) ==
    LET score == -child.score
        new_best_score == IF score > best_score THEN score ELSE best_score
        new_best_move == IF score > best_score THEN moves[i] ELSE best_move
        new_alpha == max(alpha, score)
    IN  IF new_alpha >= beta
        THEN [state |-> undo_last_move(child.state), best_score |-> new_best_score,
              best_move |-> new_best_move, tt |-> child.tt]
        ELSE AlphaBetaLoop(undo_last_move(child.state), moves, i + 1, depth,
                           new_alpha, beta, new_best_score, new_best_move, child.tt)

AlphaBetaLoop(state, moves, i, depth, alpha, beta, best_score, best_move, table) ==
    IF i > Len(moves)
    THEN [state |-> state, best_score |-> best_score, best_move |-> best_move,
          tt |-> table]
    ELSE AlphaBetaAfterChild(
             alpha_beta(make_move(state, moves[i]), depth - 1, -beta, -alpha, table),
             moves, i, depth, alpha, beta, best_score, best_move)

(* Transposition Table Store, and the values handed back. *)
AlphaBetaStore(loop, depth, old_alpha, beta, snapshot) ==
    LET node_type == IF loop.best_score <= old_alpha THEN "Upper"
                     ELSE IF loop.best_score >= beta THEN "Lower"
                     ELSE "Exact"
    IN  SearchResult(loop.best_score, loop.best_move, loop.state,
                     TranspositionTable_insert(
                         loop.tt, snapshot,
                         Entry(loop.best_score, depth, node_type, loop.best_move)))

(* A faulty Move Ordering: the key of the hash move is the lowest. *)
MoveOrdering_hash_move_first(moves, hash_move) ==
    sort_by_cached_key(moves,
                       [i \in 1..Len(moves) |->
                           IF hash_move # NoPly /\ moves[i] = hash_move
                           THEN ISIZE_MIN
                           ELSE -score_move(moves[i])])

(* Move Ordering: moves.sort_by_cached_key with the key isize::MAX for the *)
(* hash move and -score_move for the others.                               *)
MoveOrdering(moves, hash_move) ==
    sort_by_cached_key(moves,
                       [i \in 1..Len(moves) |->
                           IF hash_move # NoPly /\ moves[i] = hash_move
                           THEN ISIZE_MAX
                           ELSE -score_move(moves[i])])

(* The loop over the ordered legal moves. *)
AlphaBetaExpand(lm, depth, alpha, beta, table, snapshot, hash_move) ==
    IF lm.legal_moves = <<>>
    THEN SearchResult(evaluate_position(lm.self), NoPly, lm.self, table)
    ELSE AlphaBetaStore(
             AlphaBetaLoop(lm.self, MoveOrdering(lm.legal_moves, hash_move), 1,
                           depth, alpha, beta, ISIZE_MIN, NoPly, table),
             depth, alpha, beta, snapshot)

(* return quiescence(state, alpha, beta) *)
AlphaBetaLeaf(leaf, table) == SearchResult(leaf.score, NoPly, leaf.state, table)

(* A faulty node: the outcome of the position is not looked at. *)
AlphaBetaNode_without_outcome_test(state, depth, alpha, beta, table, snapshot, hash_move) ==
    IF depth = 0
    THEN AlphaBetaLeaf(quiescence(state, alpha, beta), table)
    ELSE AlphaBetaExpand(get_legal_moves(state), depth, alpha, beta, table,
                         snapshot, hash_move)

(* Terminal states and depth exhaustion. *)
AlphaBetaNode(state, depth, alpha, beta, table, snapshot, hash_move) ==
    IF state.outcome # NoOutcome
    THEN SearchResult(TerminalScore(state, depth), NoPly, state, table)
    ELSE IF depth = 0
    THEN AlphaBetaLeaf(quiescence(state, alpha, beta), table)
    ELSE AlphaBetaExpand(get_legal_moves(state), depth, alpha, beta, table,
                         snapshot, hash_move)

(* A faulty Transposition Table Lookup: an entry of any depth is trusted. *)
AlphaBetaProbe_of_any_depth(state, depth, alpha, beta, table, snapshot, entry) ==
    IF entry # NoEntry
    THEN IF entry.node_type = "Exact"
         THEN SearchResult(entry.score, entry.best_move, state, table)
         ELSE LET new_alpha == IF entry.node_type = "Lower"
                               THEN max(alpha, entry.score) ELSE alpha
                  new_beta == IF entry.node_type = "Upper"
                              THEN min(beta, entry.score) ELSE beta
              IN  IF new_alpha >= new_beta
                  THEN SearchResult(entry.score, entry.best_move, state, table)
                  ELSE AlphaBetaNode(state, depth, new_alpha, new_beta, table,
                                     snapshot, entry.best_move)
    ELSE AlphaBetaNode(state, depth, alpha, beta, table, snapshot, entry.best_move)

(* Transposition Table Lookup. *)
AlphaBetaProbe(state, depth, alpha, beta, table, snapshot, entry) ==
    IF entry # NoEntry /\ entry.depth >= depth
    THEN IF entry.node_type = "Exact"
         THEN SearchResult(entry.score, entry.best_move, state, table)
         ELSE LET new_alpha == IF entry.node_type = "Lower"
                               THEN max(alpha, entry.score) ELSE alpha
                  new_beta == IF entry.node_type = "Upper"
                              THEN min(beta, entry.score) ELSE beta
              IN  IF new_alpha >= new_beta
                  THEN SearchResult(entry.score, entry.best_move, state, table)
                  ELSE AlphaBetaNode(state, depth, new_alpha, new_beta, table,
                                     snapshot, entry.best_move)
    ELSE AlphaBetaNode(state, depth, alpha, beta, table, snapshot, entry.best_move)

alpha_beta(state, depth, alpha, beta, table) ==
    AlphaBetaProbe(state, depth, alpha, beta, table, create_snapshot(state),
                   TranspositionTable_get(table, create_snapshot(state)))

(* The opening book: a stub that returns no move. *)
search_opening_book(state) == NoPly

(***************************************************************************)
(* The perft binary (bin/perft).  perft takes the game by &mut: it returns *)
(* the results and the game after the call.                                *)
(***************************************************************************)
PerftResults_new ==
    [nodes |-> 0, captures |-> 0, en_passant |-> 0, castles |-> 0, promotions |-> 0]

(* A faulty add: the captures of the right-hand side are dropped. *)
PerftResults_add_nodes_only(self, rhs) ==
    [nodes |-> self.nodes + rhs.nodes,
     captures |-> self.captures,
     en_passant |-> self.en_passant + rhs.en_passant,
     castles |-> self.castles + rhs.castles,
     promotions |-> self.promotions + rhs.promotions]

(* impl Add for PerftResults; add_assign is *self = *self + rhs. *)
PerftResults_add(self, rhs) ==
    [nodes |-> self.nodes + rhs.nodes,
     captures |-> self.captures + rhs.captures,
     en_passant |-> self.en_passant + rhs.en_passant,
     castles |-> self.castles + rhs.castles,
     promotions |-> self.promotions + rhs.promotions]

Perfted(game, results) == [game |-> game, results |-> results]

(* The number of the moves of a list that satisfy a test. *)
CountMoves(moves, Test(_)) == Len(SelectSeq(moves, Test))

(* depth == 1: the moves are counted without being made; generated is the  *)
(* result of get_legal_moves.                                              *)
PerftBulk(generated) ==
    LET moves == generated.legal_moves
        IsCaptured(m) == m.piece_captured # NoPiece
        IsCastle(m) == m.special_move.tag = "Castle"
        IsEnPassant(m) == m.special_move.tag = "EnPassant"
        IsPromotion(m) == m.special_move.tag = "Promotion"
    IN  Perfted(generated.self,
                [nodes |-> Len(moves),
                 captures |-> CountMoves(moves, IsCaptured),
                 en_passant |-> CountMoves(moves, IsEnPassant),
                 castles |-> CountMoves(moves, IsCastle),
                 promotions |-> CountMoves(moves, IsPromotion)])

RECURSIVE perft(_, _), PerftLoop(_, _, _, _, _)

(* results += perft(game, depth - 1); game.undo_last_move(); child is the  *)
(* result of the recursive call for moves[i], a count (usize) that has     *)
(* been returned when the loop goes on.                                    *)
PerftAfterChild(child, moves, i, depth, results) ==
    CASE child.results.nodes >= 0 /\ results.nodes >= 0 ->
        PerftLoop(undo_last_move(child.game), moves, i + 1, depth,
                  PerftResults_add(results, child.results))

(* for m in moves, from moves[i] on. *)
PerftLoop(game, moves, i, depth, results) ==
    IF i > Len(moves) THEN Perfted(game, results)
    ELSE PerftAfterChild(perft(make_move(game, moves[i]), depth - 1),
                         moves, i, depth, results)

PerftExpand(generated, depth) ==
    PerftLoop(generated.self, generated.legal_moves, 1, depth, PerftResults_new)

perft(game, depth) ==
    IF depth = 0 THEN Perfted(game, [PerftResults_new EXCEPT !.nodes = 1])
    ELSE IF depth = 1 THEN PerftBulk(get_legal_moves(game))
    ELSE PerftExpand(get_legal_moves(game), depth)

(* A faulty worker: the root move is not made on the clone. *)
Worker_without_move(board_clone, m, depth) == perft(board_clone, depth - 1).results

(* The closure of a worker thread: it owns board_clone and m. *)
Worker(board_clone, m, depth) == perft(make_move(board_clone, m), depth - 1).results

(* PERFT_EXPECTED[depth], for the depths 0 to 6. *)
Expected(nodes, captures, en_passant, castles, promotions) ==
    [nodes |-> nodes, captures |-> captures, en_passant |-> en_passant,
     castles |-> castles, promotions |-> promotions]
PERFT_EXPECTED ==
    <<Expected(1, 0, 0, 0, 0),
      Expected(20, 0, 0, 0, 0),
      Expected(400, 0, 0, 0, 0),
      Expected(8902, 34, 0, 0, 0),
      Expected(197281, 1576, 0, 0, 0),
      Expected(4865609, 82719, 258, 0, 0),
      Expected(119060324, 2812008, 5248, 0, 0)>>

(***************************************************************************)
(* The state machine.  The variables are the fields of one BoardFrontend,  *)
(* and beside them:                                                        *)
(*   last_call  the public call that produced the state: its name, the ply *)
(*              it was given, its result ("applied" or "ignored" for       *)
(*              make_move, "undone" or "empty" for undo_last_move, "Ok" or *)
(*              "Err" for a draw claim) and, for make_move, get_legal_moves*)
(*              and the claims, the BoardFrontend before the call;         *)
(*   trail      the PositionSnapshot of every position of the game so far, *)
(*              the initial one first;                                     *)
(*   undos      the number of undo calls so far;                           *)
(*   probe      the generator, make_move and undo_move of the BoardBackend *)
(*              called directly on the board (SpecBackend);                *)
(*   tt         the TranspositionTable of the engine;                      *)
(*   last_insert  the last TranspositionTable::insert: its key, its entry  *)
(*              and the table before it;                                   *)
(*   search     the call of best_move: where it stands ("idle" before the  *)
(*              call, "searching" inside the loop, "returned"), and its    *)
(*              locals current_depth, best_ply and state;                  *)
(*   notation   a string given to fen::from_fen, its Result, the string    *)
(*              to_fen makes of an Ok result and the Result of parsing     *)
(*              that string again;                                         *)
(*   bench      a call of perft or of root_level_perft on the position:    *)
(*              its depth, the root moves, one handle per spawned worker   *)
(*              (its own clone of the board, and its result once it has    *)
(*              finished), the number of handles joined, the accumulated   *)
(*              total_results and the value returned;                      *)
(*   clock      a MoveCounter of its own: the counter, the counters before *)
(*              the ticks not yet unticked (the last one last), the last   *)
(*              call and, after an untick, the counter before the tick it  *)
(*              matches;                                                   *)
(*   node       one call of alpha_beta: its arguments, the table before    *)
(*              it and what it returned.                                   *)
(***************************************************************************)
VARIABLES backend, turn, castling_rights_log, en_passant_target, move_counter,
          move_log, repetition_table, outcome, in_check,
          last_call, trail, undos, probe,
          tt, last_insert, search, notation, bench, clock, node, app

vars == <<backend, turn, castling_rights_log, en_passant_target, move_counter,
          move_log, repetition_table, outcome, in_check,
          last_call, trail, undos, probe,
          tt, last_insert, search, notation, bench, clock, node, app>>

(* The variables of the engine crate, which no method of BoardFrontend or  *)
(* BoardBackend touches.                                                   *)
engine == <<tt, last_insert, search>>

(* The variables of fen.rs and of the perft binary.                        *)
tools == <<notation, bench>>

(* The variables of the calls made on one MoveCounter and of one call of   *)
(* alpha_beta, and those of the graphical front end.                       *)
units == <<clock, node, app>>

(* The variables of the chess crate and of its callers.                    *)
chess ==
    <<backend, turn, castling_rights_log, en_passant_target, move_counter,
      move_log, repetition_table, outcome, in_check, last_call, trail, undos, probe>>

Self ==
    [backend |-> backend, turn |-> turn, castling_rights_log |-> castling_rights_log,
     en_passant_target |-> en_passant_target, move_counter |-> move_counter,
     move_log |-> move_log, repetition_table |-> repetition_table,
     outcome |-> outcome, in_check |-> in_check]

Becomes(s) ==
    /\ backend' = s.backend
    /\ turn' = s.turn
    /\ castling_rights_log' = s.castling_rights_log
    /\ en_passant_target' = s.en_passant_target
    /\ move_counter' = s.move_counter
    /\ move_log' = s.move_log
    /\ repetition_table' = s.repetition_table
    /\ outcome' = s.outcome
    /\ in_check' = s.in_check

(* The value of last_call.before after a call that records none. *)
NoPosition ==
    [backend |-> [grid |-> <<>>, white_king_location |-> NoCoordinates,
                  black_king_location |-> NoCoordinates],
     turn |-> "None", castling_rights_log |-> <<>>,
     en_passant_target |-> NoCoordinates, move_counter |-> MoveCounter_new,
     move_log |-> <<>>, repetition_table |-> EmptyTable,
     outcome |-> NoOutcome, in_check |-> FALSE]

Call(op, ply, result, before) ==
    [op |-> op, ply |-> ply, result |-> result, before |-> before]

NoInsert ==
    [snapshot |-> create_snapshot(NoPosition), entry |-> NoEntry,
     before |-> TranspositionTable_new]

(* best_move has not been called. *)
NoSearch ==
    [pc |-> "idle", current_depth |-> 0, best_ply |-> NoPly, state |-> NoPosition,
     depths |-> <<>>, found |-> <<>>]

NoNotation ==
    [pc |-> "idle", input |-> <<>>, parsed |-> FenErr(""), printed |-> <<>>,
     reparsed |-> FenErr("")]

(* Neither perft nor root_level_perft has been called. *)
NoBench ==
    [pc |-> "idle", depth |-> 0, moves |-> <<>>, handles |-> <<>>, joined |-> 0,
     total_results |-> PerftResults_new, result |-> PerftResults_new]

(* No call has been made on the MoveCounter. *)
NoClock ==
    [counter |-> MoveCounter_new, log |-> <<>>, op |-> "new", matched |-> MoveCounter_new,
     reset |-> FALSE, saturated |-> FALSE, calls |-> 0]

(* alpha_beta has not been called. *)
NoNode ==
    [pc |-> "idle", state |-> NoPosition, depth |-> 0, alpha |-> 0, beta |-> 0,
     before |-> TranspositionTable_new,
     returned |-> SearchResult(0, NoPly, NoPosition, TranspositionTable_new),
     calls |-> 0]

(* The front end as it is mounted: nothing selected, no promotion asked    *)
(* for, no engine callback scheduled or run.  timers holds the games the   *)
(* scheduled callbacks have captured, oldest first; engine is the last     *)
(* callback that has run; undone tells whether Undo or Restart has been    *)
(* clicked.                                                                *)
NoApp ==
    [selected_square |-> NoCoordinates, pending_promotion |-> NoPly,
     timers |-> <<>>, clicks |-> 0, undone |-> FALSE,
     engine |-> [pc |-> "idle", current_game |-> NoPosition, engine_ply |-> NoPly,
                 before |-> NoPosition]]

NoProbe ==
    [pc |-> "idle",
     piece |-> LocatedPiece_new(NoPiece, NoCoordinates),
     en_passant_target |-> NoCoordinates, castling_rights |-> no_rights,
     moves |-> <<>>, ply |-> NoPly, before |-> NoPosition.backend]

Constructed(s) ==
    /\ backend = s.backend
    /\ turn = s.turn
    /\ castling_rights_log = s.castling_rights_log
    /\ en_passant_target = s.en_passant_target
    /\ move_counter = s.move_counter
    /\ move_log = s.move_log
    /\ repetition_table = s.repetition_table
    /\ outcome = s.outcome
    /\ in_check = s.in_check
    /\ last_call = Call("new", NoPly, "", NoPosition)
    /\ trail = <<create_snapshot(s)>>
    /\ undos = 0
    /\ probe = NoProbe
    /\ tt = TranspositionTable_new
    /\ last_insert = NoInsert
    /\ search = NoSearch
    /\ notation = NoNotation
    /\ bench = NoBench
    /\ clock = NoClock
    /\ node = NoNode
    /\ app = NoApp

MaxPly == 1
MaxUndo == 1

Range(seq) == {seq[i] : i \in 1..Len(seq)}

InitialPositions ==
    {from_starting_position, from_fen(FEN_MateInOne), from_fen(FEN_BackRankMate),
     from_fen(FEN_Stalemate),
     from_fen(FEN_BareKings), from_fen(FEN_EnPassant), from_fen(FEN_Promotion),
     from_fen(FEN_CastlingWhite), from_fen(FEN_CastlingBlack), from_fen(FEN_Pinned)}

Init == \E s \in InitialPositions : Constructed(s)

(* The caller plays a legal move; once the game is over a front end may    *)
(* still hand make_move any ply of the position.                           *)
CandidatePlies ==
    IF outcome = NoOutcome THEN Range(get_legal_moves(Self).legal_moves)
    ELSE Range(get_pseudo_legal_moves(Self))

Played(ply) ==
    LET after == make_move(Self, ply)
    IN  /\ Becomes(after)
        /\ last_call' = Call("make_move", ply,
                             IF outcome = NoOutcome THEN "applied" ELSE "ignored", Self)
        /\ trail' = IF outcome = NoOutcome
                    THEN Append(trail, create_snapshot(after))
                    ELSE trail
        /\ UNCHANGED <<undos, probe, engine, tools, units>>

MakeMove ==
    /\ outcome # NoOutcome \/ Len(move_log) < MaxPly
    /\ \E ply \in CandidatePlies : Played(ply)

UndoLastMove ==
    /\ undos < MaxUndo
    /\ Becomes(undo_last_move(Self))
    /\ last_call' = Call("undo_last_move", NoPly,
                         IF move_log # <<>> THEN "undone" ELSE "empty", NoPosition)
    /\ trail' = IF move_log # <<>> THEN SubSeq(trail, 1, Len(trail) - 1) ELSE trail
    /\ undos' = undos + 1
    /\ UNCHANGED <<probe, engine, tools, units>>

GetLegalMoves ==
    /\ Becomes(get_legal_moves(Self).self)
    /\ last_call' = Call("get_legal_moves", NoPly, "", Self)
    /\ UNCHANGED <<trail, undos, probe, engine, tools, units>>

ClaimThreefoldRepetition ==
    LET claim == claim_threefold_repetition(Self)
    IN  /\ Becomes(claim.self)
        /\ last_call' = Call("claim_threefold_repetition", NoPly, claim.result, Self)
        /\ UNCHANGED <<trail, undos, probe, engine, tools, units>>

ClaimFiftyMoveRule ==
    LET claim == claim_fifty_move_rule(Self)
    IN  /\ Becomes(claim.self)
        /\ last_call' = Call("claim_fifty_move_rule", NoPly, claim.result, Self)
        /\ UNCHANGED <<trail, undos, probe, engine, tools, units>>

Next ==
    \/ MakeMove
    \/ UndoLastMove
    \/ GetLegalMoves
    \/ ClaimThreefoldRepetition
    \/ ClaimFiftyMoveRule

Spec == Init /\ [][Next]_vars

(***************************************************************************)
(* SpecRepetition: long games.  From the starting position the knights go  *)
(* out and back between g1, f3 and g8, f6; in the fortress each side can   *)
(* only move its king.                                                     *)
(***************************************************************************)
MaxShufflePly == 16

ShuffleSquares == {<<7, 6>>, <<5, 5>>, <<0, 6>>, <<2, 5>>}

ShufflePlies ==
    {ply \in CandidatePlies :
        \/ ply.piece_moved.kind = "King"
        \/ /\ ply.piece_moved.kind = "Knight"
           /\ {ply.starting_square, ply.ending_square} \subseteq ShuffleSquares}

ShuffleMove ==
    /\ outcome # NoOutcome \/ Len(move_log) < MaxShufflePly
    /\ \E ply \in ShufflePlies : Played(ply)

InitRepetition ==
    \E s \in {from_starting_position, from_fen(FEN_Fortress)} : Constructed(s)

NextRepetition ==
    \/ ShuffleMove
    \/ UndoLastMove
    \/ ClaimThreefoldRepetition
    \/ ClaimFiftyMoveRule

SpecRepetition == InitRepetition /\ [][NextRepetition]_vars

(***************************************************************************)
(* SpecPrecedence: games in which one move meets several end-of-game       *)
(* tests.  The fifty-move counter stands one move before the forced draw   *)
(* with a mate, a stalemate and a move of bare kings at hand, and in the   *)
(* fortress the sixteenth move is the one that takes the counter to the    *)
(* threshold and can bring the loaded position back for the fifth time.    *)
(***************************************************************************)
PrecedencePositions ==
    {from_fen(FEN_BackRankMate),
     from_fen([FEN_Stalemate EXCEPT !.halfmove_clock = 149]),
     from_fen([FEN_BareKings EXCEPT !.halfmove_clock = 149]),
     from_fen([FEN_Fortress EXCEPT !.halfmove_clock = 150 - MaxShufflePly])}

InitPrecedence == \E s \in PrecedencePositions : Constructed(s)

NextPrecedence ==
    \/ MakeMove
    \/ ShuffleMove
    \/ UndoLastMove

SpecPrecedence == InitPrecedence /\ [][NextPrecedence]_vars

(***************************************************************************)
(* SpecOutcome: the operations that end a game from outside the board.     *)
(* A front end may call any of them at any time, whether the game is over  *)
(* or not.                                                                 *)
(***************************************************************************)
Ended(op, s) ==
    /\ Becomes(s)
    /\ last_call' = Call(op, NoPly, "", Self)
    /\ UNCHANGED <<trail, undos, probe, engine, tools, units>>

Resign == \E resigning_player \in {White, Black} : Ended("resign", resign(Self, resigning_player))

WinOnTime == \E flagged_player \in {White, Black} : Ended("win_on_time", win_on_time(Self, flagged_player))

Forfeit == \E forfeited_player \in {White, Black} : Ended("forfeit", forfeit(Self, forfeited_player))

DrawByForfeit == Ended("draw_by_forfeit", draw_by_forfeit(Self))

DrawByAgreement == Ended("draw_by_agreement", draw_by_agreement(Self))

DrawOnTime == Ended("draw_on_time", draw_on_time(Self))

OutcomePositions ==
    {from_fen(FEN_BackRankMate), from_fen(FEN_Stalemate)}

InitOutcome == \E s \in OutcomePositions : Constructed(s)

NextOutcome ==
    \/ MakeMove
    \/ UndoLastMove
    \/ GetLegalMoves
    \/ ClaimThreefoldRepetition
    \/ ClaimFiftyMoveRule
    \/ Resign
    \/ WinOnTime
    \/ Forfeit
    \/ DrawByForfeit
    \/ DrawByAgreement
    \/ DrawOnTime

SpecOutcome == InitOutcome /\ [][NextOutcome]_vars

(***************************************************************************)
(* SpecGui: the graphical front end.  The user plays White by clicking     *)
(* squares, and may click Undo at any time and Restart once the game is    *)
(* over; the engine plays Black from a callback that the effect on the     *)
(* game signal schedules 100 ms ahead.  Every handler runs to its end on   *)
(* the one thread of the page; the effect runs when the handler that has   *)
(* written the signal has returned, before the next event, and sees the    *)
(* value the handler has left.  Callbacks with the same delay fire in the  *)
(* order they were scheduled.  The user clicks on f2, f3, g2 and g4; the   *)
(* move the engine returns is decided by the opening book and the time the *)
(* search is given, and is drawn from its legal moves e7-e5 and Qd8-h4, or *)
(* the first legal move when neither is one.  No pawn comes to promote in  *)
(* these games, so the handlers of the promotion dialog are left out.      *)
(***************************************************************************)
MaxClicks == 5

ClickSquares == {<<6, 5>>, <<5, 5>>, <<6, 6>>, <<4, 6>>}

EngineSquares == {<<<<1, 4>>, <<3, 4>>>>, <<<<0, 3>>, <<4, 7>>>>}

(* Effect::new(..): for Black to move in a game that is not over a         *)
(* callback is scheduled that owns a clone of the game.                    *)
EngineEffect(current_game, timers) ==
    IF current_game.turn = Black /\ current_game.outcome = NoOutcome
    THEN Append(timers, current_game)
    ELSE timers

(* best_move(current_game.clone(), 4): NoPly for None. *)
EngineReplies(current_game) ==
    LET moves == get_legal_moves(current_game).legal_moves
        known == {m \in Range(moves) : <<m.starting_square, m.ending_square>> \in EngineSquares}
    IN  IF moves = <<>> THEN {NoPly}
        ELSE IF known # {} THEN known
        ELSE {moves[1]}

(* The first element of moves that goes from selected to last_click. *)
MatchingMove(moves, selected, last_click) ==
    LET found == {i \in 1..Len(moves) : /\ moves[i].starting_square = selected
                                        /\ moves[i].ending_square = last_click}
    IN  IF found = {} THEN NoPly
        ELSE moves[CHOOSE i \in found : \A j \in found : i <= j]

(* handle_square_click: the game, the selection and the pending promotion  *)
(* it leaves, and whether it has written the game signal.                  *)
handle_square_click(g, selected, pending, last_click) ==
    LET same == [game |-> g, selected_square |-> selected,
                 pending_promotion |-> pending, written |-> FALSE]
        clicked_piece == get(g.backend, last_click)
        own == IF clicked_piece # NoPiece /\ clicked_piece.team = g.turn
               THEN last_click ELSE NoCoordinates
        ply == MatchingMove(get_legal_moves(g).legal_moves, selected, last_click)
    IN  IF g.turn = Black THEN same
        ELSE IF selected = NoCoordinates
        THEN [same EXCEPT !.selected_square = own]
        ELSE IF selected = last_click
        THEN [same EXCEPT !.selected_square = NoCoordinates]
        ELSE IF ply = NoPly
        THEN [same EXCEPT !.selected_square = own]
        ELSE IF ply.special_move.tag = "Promotion"
        THEN [same EXCEPT !.pending_promotion = ply, !.selected_square = NoCoordinates]
        ELSE [same EXCEPT !.game = make_move(g, ply), !.selected_square = NoCoordinates,
                          !.written = TRUE]

HandleSquareClick ==
    /\ app.clicks < MaxClicks
    /\ \E last_click \in ClickSquares :
          LET done == handle_square_click(Self, app.selected_square,
                                          app.pending_promotion, last_click)
          IN  /\ Becomes(done.game)
              /\ app' = [app EXCEPT !.selected_square = done.selected_square,
                                    !.pending_promotion = done.pending_promotion,
                                    !.clicks = @ + 1,
                                    !.timers = IF done.written
                                               THEN EngineEffect(done.game, @) ELSE @]
              /\ last_call' = Call("handle_square_click", NoPly,
                                   IF done.written THEN "moved" ELSE "", Self)
    /\ UNCHANGED <<trail, undos, probe, engine, tools, clock, node>>

OnUndo ==
    /\ app.clicks < MaxClicks
    /\ LET undone == undo_last_move(undo_last_move(Self))
       IN  /\ Becomes(undone)
           /\ app' = [app EXCEPT !.selected_square = NoCoordinates,
                                 !.clicks = @ + 1,
                                 !.undone = TRUE,
                                 !.timers = EngineEffect(undone, @)]
    /\ last_call' = Call("on_undo", NoPly, "", Self)
    /\ UNCHANGED <<trail, undos, probe, engine, tools, clock, node>>

OnRestart ==
    /\ app.clicks < MaxClicks
    /\ outcome # NoOutcome
    /\ Becomes(from_starting_position)
    /\ app' = [app EXCEPT !.selected_square = NoCoordinates,
                          !.pending_promotion = NoPly,
                          !.clicks = @ + 1,
                          !.undone = TRUE,
                          !.timers = EngineEffect(from_starting_position, @)]
    /\ last_call' = Call("on_restart", NoPly, "", Self)
    /\ UNCHANGED <<trail, undos, probe, engine, tools, clock, node>>

(* The oldest callback fires: the engine answers for the game the callback *)
(* owns and the answer is made on the game of the signal.                  *)
EngineCallback ==
    /\ app.timers # <<>>
    /\ LET current_game == Head(app.timers)
       IN  \E engine_ply \in EngineReplies(current_game) :
              IF engine_ply = NoPly
              THEN /\ app' = [app EXCEPT !.timers = Tail(@)]
                   /\ UNCHANGED <<backend, turn, castling_rights_log, en_passant_target,
                                  move_counter, move_log, repetition_table, outcome,
                                  in_check, last_call>>
              ELSE LET after == make_move(Self, engine_ply)
                   IN  /\ Becomes(after)
                       /\ app' = [app EXCEPT
                                     !.timers = EngineEffect(after, Tail(@)),
                                     !.engine = [pc |-> "applied",
                                                 current_game |-> current_game,
                                                 engine_ply |-> engine_ply,
                                                 before |-> Self]]
                       /\ last_call' = Call("make_move", engine_ply,
                                            IF outcome = NoOutcome THEN "applied"
                                            ELSE "ignored", Self)
    /\ UNCHANGED <<trail, undos, probe, engine, tools, clock, node>>

InitGui == Constructed(from_starting_position)

NextGui ==
    \/ HandleSquareClick
    \/ OnUndo
    \/ OnRestart
    \/ EngineCallback

SpecGui == InitGui /\ [][NextGui]_vars

(***************************************************************************)
(* SpecCastling: a game without undo from a position in which both sides   *)
(* hold both castling rights.  The kings and rooks move along the back     *)
(* ranks, castle, and the rooks take each other on the corners; the pawns  *)
(* push.                                                                   *)
(***************************************************************************)
MaxCastlingPly == 2

CastlingPlies ==
    {ply \in CandidatePlies :
        \/ Row(ply.ending_square) \in {0, BOARD_ROWS - 1}
        \/ ply.piece_moved.kind = "Pawn"}

CastlingMove ==
    /\ outcome # NoOutcome \/ Len(move_log) < MaxCastlingPly
    /\ \E ply \in CastlingPlies : Played(ply)

InitCastling == Constructed(from_fen(FEN_CastlingBoth))

NextCastling == CastlingMove

SpecCastling == InitCastling /\ [][NextCastling]_vars

(***************************************************************************)
(* SpecRights: the game of SpecCastling with undo, and the same moves from *)
(* the starting position.                                                  *)
(***************************************************************************)
InitRights ==
    \E s \in {from_starting_position, from_fen(FEN_CastlingBoth)} : Constructed(s)

NextRights ==
    \/ CastlingMove
    \/ UndoLastMove

SpecRights == InitRights /\ [][NextRights]_vars

(***************************************************************************)
(* SpecTable: entries of every depth up to MaxEntryDepth are inserted into *)
(* the TranspositionTable under the snapshots of two positions.            *)
(***************************************************************************)
MaxEntryDepth == 2

TableSnapshots ==
    {create_snapshot(from_starting_position), create_snapshot(from_fen(FEN_BackRankMate))}

TableEntries ==
    {Entry(score, depth, node_type, NoPly) :
        score \in {-30, 30}, depth \in 0..MaxEntryDepth, node_type \in NodeTypes}

Insert ==
    /\ \E snapshot \in TableSnapshots, entry \in TableEntries :
          /\ tt' = TranspositionTable_insert(tt, snapshot, entry)
          /\ last_insert' = [snapshot |-> snapshot, entry |-> entry, before |-> tt]
    /\ UNCHANGED <<chess, search, tools, units>>

InitTable == Constructed(from_starting_position)

NextTable == Insert

SpecTable == InitTable /\ [][NextTable]_vars

(***************************************************************************)
(* SpecSearch: best_move is called on a position in which the side to move *)
(* has a king and a rook against the bare king in the corner.  The search  *)
(* works on its own BoardFrontend (the argument is taken by value); after  *)
(* each completed depth the time budget is or is not used up.  Depths      *)
(* above MaxSearchDepth are searched only for a game that is over, where   *)
(* alpha_beta returns at once.                                             *)
(***************************************************************************)
MaxSearchDepth == 2

DigitChars == <<"1", "2", "3", "4", "5", "6", "7", "8">>

(* The notation of a rank that holds one piece, on the given column. *)
RankWith(piece_char, column) ==
    (IF column > 0 THEN <<DigitChars[column]>> ELSE <<>>)
        \o <<piece_char>>
        \o (IF column < BOARD_COLUMNS - 1
            THEN <<DigitChars[BOARD_COLUMNS - 1 - column]>> ELSE <<>>)

(* White: Kg6 and a rook against Kh8; Black: the same seen from the other  *)
(* side of the board, kg3 and a rook against Kh1.                          *)
RookEnding(team, row, column) ==
    Fen([r \in 1..BOARD_ROWS |->
            IF team = White
            THEN CASE r - 1 = 0 -> <<"7", "k">>
                   [] r - 1 = 2 -> <<"6", "K", "1">>
                   [] r - 1 = row -> RankWith("R", column)
                   [] OTHER -> <<"8">>
            ELSE CASE r - 1 = BOARD_ROWS - 1 -> <<"7", "K">>
                   [] r - 1 = BOARD_ROWS - 3 -> <<"6", "k", "1">>
                   [] r - 1 = BOARD_ROWS - 1 - row -> RankWith("r", column)
                   [] OTHER -> <<"8">>],
        IF team = White THEN <<"w">> ELSE <<"b">>, <<"-">>, <<"-">>, 0, 1)

SearchPositions ==
    {from_fen(RookEnding(team, row, column)) :
        team \in {White, Black}, row \in {1, 4, 6, 7}, column \in {0, 3, 5}}

(* A game that is over: the position after Ra8 mate. *)
FinishedPositions ==
    LET s == from_fen(RookEnding(White, BOARD_ROWS - 1, 0))
    IN  {make_move(get_legal_moves(s).self, ply) :
            ply \in {m \in Range(get_legal_moves(s).legal_moves) :
                        m.ending_square = <<0, 0>>}}

InitSearch == \E s \in SearchPositions \cup FinishedPositions : Constructed(s)

BestMove ==
    /\ search.pc = "idle"
    /\ search' = IF search_opening_book(Self) # NoPly
                 THEN [pc |-> "returned", current_depth |-> 0,
                       best_ply |-> search_opening_book(Self), state |-> Self,
                       depths |-> <<>>, found |-> <<>>]
                 ELSE [pc |-> "searching", current_depth |-> STARTING_DEPTH,
                       best_ply |-> NoPly, state |-> Self,
                       depths |-> <<>>, found |-> <<>>]
    /\ tt' = TranspositionTable_new
    /\ UNCHANGED <<chess, last_insert, tools, units>>

(* A faulty loop: the depth goes up by two. *)
Deepened_by_two(found) ==
    \E elapsed \in BOOLEAN :
        /\ search' = [pc |-> IF elapsed \/ search.current_depth + 2 > MAX_DEPTH
                             THEN "returned" ELSE "searching",
                      current_depth |-> search.current_depth + 2,
                      best_ply |-> IF found.best_move_found # NoPly
                                   THEN found.best_move_found ELSE search.best_ply,
                      state |-> found.state,
                      depths |-> Append(search.depths, search.current_depth),
                      found |-> Append(search.found, found.best_move_found)]
        /\ tt' = found.tt

(* One turn of the loop of best_move, the call of alpha_beta done.  The    *)
(* depths searched and the move each has left in depth_best_ply are kept.  *)
Deepened(found) ==
    \E elapsed \in BOOLEAN :
        /\ search' = [pc |-> IF elapsed \/ search.current_depth + 1 > MAX_DEPTH
                             THEN "returned" ELSE "searching",
                      current_depth |-> search.current_depth + 1,
                      best_ply |-> IF found.best_move_found # NoPly
                                   THEN found.best_move_found ELSE search.best_ply,
                      state |-> found.state,
                      depths |-> Append(search.depths, search.current_depth),
                      found |-> Append(search.found, found.best_move_found)]
        /\ tt' = found.tt

Deepen ==
    /\ search.pc = "searching"
    /\ search.current_depth <= MaxSearchDepth \/ search.state.outcome # NoOutcome
    /\ Deepened(alpha_beta(search.state, search.current_depth,
                           ISIZE_MIN + 1, ISIZE_MAX - 1, tt))
    /\ UNCHANGED <<chess, last_insert, tools, units>>

NextSearch ==
    \/ BestMove
    \/ Deepen

SpecSearch == InitSearch /\ [][NextSearch]_vars

(***************************************************************************)
(* SpecAlphaBeta: alpha_beta is called up to MaxNodeCalls times on one     *)
(* position, with a depth up to MaxNodeDepth and one of a few windows, on  *)
(* the table the calls before it have left.  The positions: Kg6 and Ra1    *)
(* against Kh8 with White to move, the same after Ra8 mate and after the   *)
(* quiet Rb1, a pawn that promotes with and without capture, and Kg6 and   *)
(* Rg7 against Kh8 after Rg8, where the only move Kxg8 leaves bare kings.  *)
(***************************************************************************)
MaxNodeDepth == 2
MaxNodeCalls == 2

AlphaBetaRoot == from_fen(RookEnding(White, BOARD_ROWS - 1, 0))

AlphaBetaCapture ==
    LET s == from_fen(RookEnding(White, 1, BOARD_COLUMNS - 2))
    IN  make_move(get_legal_moves(s).self,
                  CHOOSE m \in Range(get_legal_moves(s).legal_moves) :
                      m.ending_square = <<0, BOARD_COLUMNS - 2>>)

AlphaBetaPositions ==
    {AlphaBetaRoot, from_fen(FEN_Promotion), AlphaBetaCapture}
    \cup {make_move(get_legal_moves(AlphaBetaRoot).self, ply) :
             ply \in {m \in Range(get_legal_moves(AlphaBetaRoot).legal_moves) :
                         m.ending_square \in {<<0, 0>>, <<BOARD_ROWS - 1, 1>>}}}

Windows ==
    {<<ISIZE_MIN + 1, ISIZE_MAX - 1>>, <<-1000, -600>>, <<-1000, 0>>, <<0, 400>>,
     <<0, 1000>>}

(* The promotion position is searched to depth 1 only, the position with   *)
(* the capture from depth 0 on.                                            *)
NodeDepths(state) ==
    IF state.backend = from_fen(FEN_Promotion).backend THEN {1}
    ELSE IF state.backend = AlphaBetaCapture.backend THEN 0..MaxNodeDepth
    ELSE 1..MaxNodeDepth

AlphaBeta ==
    /\ node.calls < MaxNodeCalls
    /\ LET state == IF node.pc = "idle" THEN Self ELSE node.returned.state
       IN  \E depth \in NodeDepths(state), window \in Windows :
              LET returned == alpha_beta(state, depth, window[1], window[2], tt)
              IN  /\ node' = [pc |-> "returned", state |-> state, depth |-> depth,
                              alpha |-> window[1], beta |-> window[2], before |-> tt,
                              returned |-> returned, calls |-> node.calls + 1]
                  /\ tt' = returned.tt
    /\ UNCHANGED <<chess, last_insert, search, tools, clock, app>>

InitAlphaBeta == \E s \in AlphaBetaPositions : Constructed(s)

NextAlphaBeta == AlphaBeta

SpecAlphaBeta == InitAlphaBeta /\ [][NextAlphaBeta]_vars

(***************************************************************************)
(* SpecQuiescence: quiescence is called up to MaxQuiescenceCalls times     *)
(* with one of the windows on a position with captures to make: any of     *)
(* the pawns e4, d5 and c6, the knights c3 and f6 and the bishop g2        *)
(* between Ka1 and Kb8 with either side to move, the position with the     *)
(* en-passant capture and the position with the capturing promotion.       *)
(***************************************************************************)
MaxQuiescenceCalls == 1

(* The notation of a rank from its eight squares, "" for an empty one. *)
RECURSIVE RankNotation(_, _, _)
RankNotation(squares, i, empty) ==
    LET run == IF empty > 0 THEN <<DigitChars[empty]>> ELSE <<>>
    IN  IF i > Len(squares) THEN run
        ELSE IF squares[i] = "" THEN RankNotation(squares, i + 1, empty + 1)
        ELSE run \o <<squares[i]>> \o RankNotation(squares, i + 1, 0)

CapturePieces ==
    {[char |-> "P", at |-> <<4, 4>>], [char |-> "p", at |-> <<3, 3>>],
     [char |-> "p", at |-> <<2, 2>>], [char |-> "N", at |-> <<5, 2>>],
     [char |-> "n", at |-> <<2, 5>>], [char |-> "B", at |-> <<6, 6>>],
     [char |-> "K", at |-> <<7, 0>>], [char |-> "k", at |-> <<0, 1>>]}

CaptureKings == {piece \in CapturePieces : piece.char \in {"K", "k"}}

CapturePosition(present, team) ==
    LET Square(row, column) ==
            IF \E piece \in present : piece.at = <<row, column>>
            THEN (CHOOSE piece \in present : piece.at = <<row, column>>).char
            ELSE ""
    IN  from_fen(Fen([r \in 1..BOARD_ROWS |->
                         RankNotation([c \in 1..BOARD_COLUMNS |-> Square(r - 1, c - 1)],
                                      1, 0)],
                     IF team = White THEN <<"w">> ELSE <<"b">>, <<"-">>, <<"-">>, 0, 1))

QuiescencePositions ==
    {CapturePosition(present \cup CaptureKings, team) :
        present \in SUBSET (CapturePieces \ CaptureKings), team \in {White, Black}}
    \cup {from_fen(FEN_EnPassant), from_fen(FEN_Promotion)}

Quiescence ==
    /\ node.calls < MaxQuiescenceCalls
    /\ LET state == IF node.pc = "idle" THEN Self ELSE node.returned.state
       IN  \E window \in Windows :
              node' = [pc |-> "quiesced", state |-> state, depth |-> 0,
                       alpha |-> window[1], beta |-> window[2], before |-> tt,
                       returned |-> quiescence(state, window[1], window[2]),
                       calls |-> node.calls + 1]
    /\ UNCHANGED <<chess, tt, last_insert, search, tools, clock, app>>

InitQuiescence == \E s \in QuiescencePositions : Constructed(s)

NextQuiescence == Quiescence

SpecQuiescence == InitQuiescence /\ [][NextQuiescence]_vars

(***************************************************************************)
(* SpecDeepening: the calls of alpha_beta that the loop of best_move       *)
(* makes, depth STARTING_DEPTH, then one more each time up to              *)
(* MaxIterations, with the full window on the table and the position the   *)
(* calls before have left.  The positions: Ka1 and Pa2 against Kd2, Pa3    *)
(* and a knight, White to move, with a halfmove clock far from and near    *)
(* the forced draw.  The pawns block each other and the white king has the *)
(* squares a1 and b1 as long as the black king stays.                      *)
(***************************************************************************)
MaxIterations == 4

KnightSquares == {<<0, 7>>, <<0, 6>>, <<1, 7>>, <<0, 5>>, <<2, 7>>}

HalfmoveClocks == {0, 100, 145, 146, 147}

DeepeningPosition(knight, halfmove_clock) ==
    LET Square(row, column) ==
            CASE <<row, column>> = knight -> "n"
              [] <<row, column>> = <<5, 0>> -> "p"
              [] <<row, column>> = <<6, 0>> -> "P"
              [] <<row, column>> = <<6, 3>> -> "k"
              [] <<row, column>> = <<7, 0>> -> "K"
              [] OTHER -> ""
    IN  from_fen(Fen([r \in 1..BOARD_ROWS |->
                         RankNotation([c \in 1..BOARD_COLUMNS |-> Square(r - 1, c - 1)],
                                      1, 0)],
                     <<"w">>, <<"-">>, <<"-">>, halfmove_clock, 1))

DeepeningPositions ==
    {DeepeningPosition(knight, halfmove_clock) :
        knight \in KnightSquares, halfmove_clock \in HalfmoveClocks}

Iterate ==
    /\ node.depth < MaxIterations
    /\ LET state == IF node.pc = "idle" THEN Self ELSE node.returned.state
           current_depth == IF node.pc = "idle" THEN STARTING_DEPTH ELSE node.depth + 1
           returned == alpha_beta(state, current_depth, ISIZE_MIN + 1, ISIZE_MAX - 1, tt)
       IN  /\ node' = [pc |-> "iterated", state |-> state, depth |-> current_depth,
                       alpha |-> ISIZE_MIN + 1, beta |-> ISIZE_MAX - 1, before |-> tt,
                       returned |-> returned, calls |-> node.calls + 1]
           /\ tt' = returned.tt
    /\ UNCHANGED <<chess, last_insert, search, tools, clock, app>>

InitDeepening == \E s \in DeepeningPositions : Constructed(s)

NextDeepening == Iterate

SpecDeepening == InitDeepening /\ [][NextDeepening]_vars

(***************************************************************************)
(* SpecNotation: fen::from_fen is given one string of a family of          *)
(* well-formed and malformed strings; to_fen is applied to an Ok result    *)
(* and its string is parsed again.                                         *)
(***************************************************************************)
(* The placement field of a list of ranks. *)
JoinRanks(ranks) ==
    Flatten([i \in 1..Len(ranks) |->
                ranks[i] \o (IF i < Len(ranks) THEN <<"/">> ELSE <<>>)])

(* The fields joined by single spaces. *)
RECURSIVE JoinFields(_)
JoinFields(fields) ==
    IF Len(fields) = 1 THEN Head(fields)
    ELSE Head(fields) \o <<" ">> \o JoinFields(Tail(fields))

StartingRanks ==
    <<<<"r", "n", "b", "q", "k", "b", "n", "r">>,
      <<"p", "p", "p", "p", "p", "p", "p", "p">>,
      <<"8">>, <<"8">>, <<"8">>, <<"8">>,
      <<"P", "P", "P", "P", "P", "P", "P", "P">>,
      <<"R", "N", "B", "Q", "K", "B", "N", "R">>>>

(* The fields of the well-formed strings. *)
ValidPlacements ==
    {JoinRanks(StartingRanks), JoinRanks(FEN_CastlingBoth.placement),
     JoinRanks(FEN_EnPassant.placement)}
ValidSides == {<<"w">>, <<"b">>}
ValidCastlings == {<<"-">>, <<"K", "Q", "k", "q">>, <<"K", "q">>, <<"Q">>}
ValidEnPassants == {<<"-">>, <<"e", "3">>, <<"a", "6">>}
(* A halfmove clock and a fullmove counter; the last two pairs hold a      *)
(* number of 20 digits, above usize::MAX.                                  *)
TwentyNines == [i \in 1..20 |-> "9"]
ValidClocks ==
    {<<<<"0">>, <<"1">>>>,
     <<<<"0", "5">>, <<"4", "0">>>>,
     <<<<"9", "9">>, <<"1", "2", "0">>>>,
     <<TwentyNines, <<"1">>>>,
     <<<<"0">>, TwentyNines>>}

ValidFens ==
    {JoinFields(<<placement, side, castling, en_passant, clocks[1], clocks[2]>>) :
        placement \in ValidPlacements, side \in ValidSides,
        castling \in ValidCastlings, en_passant \in ValidEnPassants,
        clocks \in ValidClocks}

(* ReplaceRank(ranks, i, rank): the ranks with the i-th replaced. *)
ReplaceRank(ranks, i, rank) == [ranks EXCEPT ![i] = rank]

BaseRanks == FEN_EnPassant.placement

(* Placements with a rank of the wrong width or with the wrong number of   *)
(* ranks, or with a character that is no piece.                            *)
MalformedPlacements ==
    {JoinRanks(ReplaceRank(BaseRanks, 1, <<"4", "k", "2">>)),
     JoinRanks(ReplaceRank(BaseRanks, 1, <<"4", "k", "4">>)),
     JoinRanks(ReplaceRank(BaseRanks, 3, <<"9">>)),
     JoinRanks(ReplaceRank(BaseRanks, 8, <<"4", "K", "2">>)),
     JoinRanks(ReplaceRank(BaseRanks, 8, <<"4", "K", "3", "P">>)),
     JoinRanks(SubSeq(BaseRanks, 1, 7)),
     JoinRanks(BaseRanks \o <<<<"8">>>>),
     JoinRanks(ReplaceRank(BaseRanks, 1, <<"4", "x", "3">>)),
     JoinRanks(ReplaceRank(BaseRanks, 5, <<"3", "p", "W", "3">>))}

MalformedFens ==
    {JoinFields(<<placement, side, <<"-">>, <<"-">>, <<"0">>, <<"1">>>>) :
        placement \in MalformedPlacements, side \in ValidSides}
    \cup {JoinFields(<<placement, side, <<"K", "q">>, <<"-">>, <<"0">>, <<"1">>>>) :
            placement \in ValidPlacements, side \in {<<"x">>, <<"W">>, <<"-">>}}
    \cup {JoinFields(<<placement, <<"w">>, castling, <<"-">>, <<"0">>, <<"1">>>>) :
            placement \in ValidPlacements,
            castling \in {<<"x">>, <<"K", "Q", "x">>, <<"A", "h">>}}
    \cup {JoinFields(<<placement, <<"b">>, <<"-">>, en_passant, <<"0">>, <<"1">>>>) :
            placement \in ValidPlacements,
            en_passant \in {<<"i", "3">>, <<"e", "4">>, <<"e", "9">>, <<"x">>}}
    \cup {JoinFields(<<placement, side, <<"-">>, en_passant>>) :
            placement \in ValidPlacements, side \in ValidSides,
            en_passant \in {<<"-">>, <<"e", "3">>}}
    \cup {JoinFields(<<placement, side, <<"-">>, <<"-">>, <<"7">>>>) :
            placement \in ValidPlacements, side \in ValidSides}

FromFen ==
    /\ notation.pc = "idle"
    /\ \E input \in ValidFens \cup MalformedFens :
           notation' = [NoNotation EXCEPT !.pc = "parsed", !.input = input,
                                          !.parsed = fen_from_fen(input)]
    /\ UNCHANGED <<chess, engine, bench, units>>

ToFen ==
    /\ notation.pc = "parsed"
    /\ notation.parsed.tag = "Ok"
    /\ notation' = [notation EXCEPT
                       !.pc = "printed",
                       !.printed = to_fen(notation.parsed.position,
                                          notation.parsed.move_counter)]
    /\ UNCHANGED <<chess, engine, bench, units>>

FromFenAgain ==
    /\ notation.pc = "printed"
    /\ notation' = [notation EXCEPT !.pc = "reparsed",
                                    !.reparsed = fen_from_fen(notation.printed)]
    /\ UNCHANGED <<chess, engine, bench, units>>

InitNotation == Constructed(from_starting_position)

NextNotation ==
    \/ FromFen
    \/ ToFen
    \/ FromFenAgain

SpecNotation == InitNotation /\ [][NextNotation]_vars

(***************************************************************************)
(* SpecPerft: perft is called with a depth on the starting position, on a  *)
(* position loaded from notation, or on a position one move later (the     *)
(* positions its own loop calls it on).                                    *)
(***************************************************************************)
MaxPerftDepth == 3
MaxPerftPly == 1

PerftPositions == {from_starting_position, from_fen(FEN_EnPassant)}

PerftMove ==
    /\ bench.pc = "idle"
    /\ Len(move_log) < MaxPerftPly
    /\ \E ply \in CandidatePlies : Played(ply)

(* returned is the value of perft(game, depth), game the position. *)
PerftReturns(returned, depth) ==
    /\ Becomes(returned.game)
    /\ bench' = [NoBench EXCEPT !.pc = "returned", !.depth = depth,
                                !.result = returned.results]
    /\ last_call' = Call("perft", NoPly, "", Self)
    /\ UNCHANGED <<trail, undos, probe, engine, notation, units>>

Perft ==
    /\ bench.pc = "idle"
    /\ \E depth \in 0..(MaxPerftDepth - Len(move_log)) :
           PerftReturns(perft(Self, depth), depth)

InitPerft == \E s \in PerftPositions : Constructed(s)

NextPerft ==
    \/ PerftMove
    \/ Perft

SpecPerft == InitPerft /\ [][NextPerft]_vars

(***************************************************************************)
(* SpecParallel: root_level_perft.  The main thread generates the root     *)
(* moves and spawns one worker per move, each with its own clone of the    *)
(* game; a worker may run as soon as it is spawned, in any order with the  *)
(* other workers and with the main thread; the main thread then joins the  *)
(* handles in the order of the moves, each join waiting for its worker,    *)
(* and returns the total.                                                  *)
(***************************************************************************)
MaxParallelDepth == 3

ParallelPositions ==
    {from_starting_position, from_fen(FEN_EnPassant), from_fen(FEN_Pinned),
     from_fen(FEN_Stalemate), from_fen(FEN_Fortress)}

Handle(board_clone, m) ==
    [board_clone |-> board_clone, m |-> m, finished |-> FALSE,
     result |-> PerftResults_new]

(* depth == 1: return perft(game, 1). *)
RootLevelSerial(returned) ==
    /\ Becomes(returned.game)
    /\ bench' = [NoBench EXCEPT !.pc = "returned", !.depth = 1,
                                !.result = returned.results]

(* let moves = game.get_legal_moves(); generated is its result. *)
RootLevelMoves(generated, depth) ==
    /\ Becomes(generated.self)
    /\ bench' = [NoBench EXCEPT !.pc = "spawning", !.depth = depth,
                                !.moves = generated.legal_moves]

(* The starting position is called with the depths 0 and 1 only: its 20    *)
(* workers have too many interleavings.                                    *)
RootLevelPerft ==
    /\ bench.pc = "idle"
    /\ \E depth \in 0..MaxParallelDepth :
           /\ Self = from_starting_position => depth <= 1
           /\ CASE depth = 0 ->
                       /\ bench' = [NoBench EXCEPT
                                       !.pc = "returned",
                                       !.result = [PerftResults_new EXCEPT !.nodes = 1]]
                       /\ UNCHANGED <<backend, turn, castling_rights_log,
                                      en_passant_target, move_counter, move_log,
                                      repetition_table, outcome, in_check>>
                [] depth = 1 -> RootLevelSerial(perft(Self, 1))
                [] OTHER -> RootLevelMoves(get_legal_moves(Self), depth)
    /\ last_call' = Call("root_level_perft", NoPly, "", Self)
    /\ UNCHANGED <<trail, undos, probe, engine, notation, units>>

(* One turn of the loop for m in moves: the clone and the spawn. *)
Spawn ==
    /\ bench.pc = "spawning"
    /\ Len(bench.handles) < Len(bench.moves)
    /\ bench' = [bench EXCEPT
                    !.handles = Append(@, Handle(Self, bench.moves[Len(@) + 1]))]
    /\ UNCHANGED <<chess, engine, notation, units>>

(* The loop is over: let mut total_results = PerftResults::new(). *)
Spawned ==
    /\ bench.pc = "spawning"
    /\ Len(bench.handles) = Len(bench.moves)
    /\ bench' = [bench EXCEPT !.pc = "joining", !.total_results = PerftResults_new]
    /\ UNCHANGED <<chess, engine, notation, units>>

(* The thread of handle i runs to its end. *)
Work ==
    /\ \E i \in 1..Len(bench.handles) :
           /\ ~bench.handles[i].finished
           /\ bench' = [bench EXCEPT
                           !.handles[i].finished = TRUE,
                           !.handles[i].result =
                               Worker(bench.handles[i].board_clone, bench.handles[i].m,
                                      bench.depth)]
    /\ UNCHANGED <<chess, engine, notation, units>>

(* handle.join() returns once the thread has finished. *)
Join ==
    /\ bench.pc = "joining"
    /\ bench.joined < Len(bench.handles)
    /\ bench.handles[bench.joined + 1].finished
    /\ bench' = [bench EXCEPT
                    !.joined = @ + 1,
                    !.total_results =
                        PerftResults_add(@, bench.handles[bench.joined + 1].result)]
    /\ UNCHANGED <<chess, engine, notation, units>>

Return ==
    /\ bench.pc = "joining"
    /\ bench.joined = Len(bench.handles)
    /\ bench' = [bench EXCEPT !.pc = "returned", !.result = bench.total_results]
    /\ UNCHANGED <<chess, engine, notation, units>>

InitParallel == \E s \in ParallelPositions : Constructed(s)

NextParallel ==
    \/ RootLevelPerft
    \/ Spawn
    \/ Spawned
    \/ Work
    \/ Join
    \/ Return

SpecParallel == InitParallel /\ [][NextParallel]_vars

(***************************************************************************)
(* SpecCounter: a MoveCounter built by MoveCounter::from is ticked with    *)
(* either flag and unticked, never unticked more often than ticked, in at  *)
(* most MaxCalls calls.  The clock it is built with is small or at the top *)
(* of usize; it is kept whether a tick has found the clock at usize::MAX.  *)
(***************************************************************************)
MaxClock == 2
MaxHalfmove == 3
MaxTicks == 3
MaxCalls == 5

Counters ==
    {MoveCounter_from(fifty, halfmove, fullmove) :
        fifty \in (0..MaxClock) \cup {USIZE_MAX - 1, USIZE_MAX},
        halfmove \in 0..MaxHalfmove, fullmove \in 1..2}

Tick ==
    /\ Len(clock.log) < MaxTicks
    /\ clock.calls < MaxCalls
    /\ \E reset_fifty_move_rule_counter \in BOOLEAN :
           clock' = [counter |-> tick(clock.counter, reset_fifty_move_rule_counter),
                     log |-> Append(clock.log,
                                    [counter |-> clock.counter,
                                     reset |-> reset_fifty_move_rule_counter]),
                     op |-> IF reset_fifty_move_rule_counter THEN "tick(true)"
                            ELSE "tick(false)",
                     matched |-> clock.matched,
                     reset |-> clock.reset,
                     saturated |->
                         \/ clock.saturated
                         \/ /\ ~reset_fifty_move_rule_counter
                            /\ fifty_move_rule_counter(clock.counter) = USIZE_MAX,
                     calls |-> clock.calls + 1]
    /\ UNCHANGED <<chess, engine, tools, node, app>>

Untick ==
    /\ clock.log # <<>>
    /\ clock.calls < MaxCalls
    /\ clock' = [counter |-> untick(clock.counter),
                 log |-> SubSeq(clock.log, 1, Len(clock.log) - 1),
                 op |-> "untick",
                 matched |-> clock.log[Len(clock.log)].counter,
                 reset |-> clock.log[Len(clock.log)].reset,
                 saturated |-> clock.saturated,
                 calls |-> clock.calls + 1]
    /\ UNCHANGED <<chess, engine, tools, node, app>>

InitCounter ==
    /\ backend = from_starting_position.backend
    /\ turn = from_starting_position.turn
    /\ castling_rights_log = from_starting_position.castling_rights_log
    /\ en_passant_target = from_starting_position.en_passant_target
    /\ move_counter = from_starting_position.move_counter
    /\ move_log = from_starting_position.move_log
    /\ repetition_table = from_starting_position.repetition_table
    /\ outcome = from_starting_position.outcome
    /\ in_check = from_starting_position.in_check
    /\ last_call = Call("new", NoPly, "", NoPosition)
    /\ trail = <<create_snapshot(from_starting_position)>>
    /\ undos = 0
    /\ probe = NoProbe
    /\ tt = TranspositionTable_new
    /\ last_insert = NoInsert
    /\ search = NoSearch
    /\ notation = NoNotation
    /\ bench = NoBench
    /\ node = NoNode
    /\ app = NoApp
    /\ \E mc \in Counters : clock = [NoClock EXCEPT !.counter = mc, !.matched = mc]

NextCounter ==
    \/ Tick
    \/ Untick

SpecCounter == InitCounter /\ [][NextCounter]_vars

(***************************************************************************)
(* SpecBackend: the generator is handed one piece of the board with an     *)
(* en-passant target and castling rights of the caller's choice; one of    *)
(* the moves it emits is made on the BoardBackend and then undone.         *)
(***************************************************************************)
Booleans == {TRUE, FALSE}

AllCastlingRights ==
    [white_king_side : Booleans, white_queen_side : Booleans,
     black_king_side : Booleans, black_queen_side : Booleans]

(* The targets notation can name: a square of the third or the sixth rank. *)
EnPassantTargets ==
    {NoCoordinates} \cup {<<row, column>> : row \in {2, 5}, column \in 0..(BOARD_COLUMNS - 1)}

Generate ==
    /\ probe.pc \in {"idle", "undone"}
    /\ undos < MaxUndo
    /\ \E i \in 1..Len(get_all_pieces(backend)) :
          LET what_to_move == get_all_pieces(backend)[i]
          IN  \E target \in IF what_to_move.piece.kind = "Pawn"
                            THEN EnPassantTargets ELSE {NoCoordinates} :
              \E rights \in IF what_to_move.piece.kind = "King"
                            THEN AllCastlingRights ELSE {no_rights} :
                 probe' = [pc |-> "generated", piece |-> what_to_move,
                           en_passant_target |-> target, castling_rights |-> rights,
                           moves |-> generate_pseudo_legal_moves(what_to_move, backend,
                                                                 target, rights),
                           ply |-> NoPly, before |-> backend]
    /\ UNCHANGED <<backend, turn, castling_rights_log, en_passant_target, move_counter,
                   move_log, repetition_table, outcome, in_check, last_call, trail, undos,
                   engine, tools, units>>

BackendMakeMove ==
    /\ probe.pc = "generated"
    /\ \E i \in 1..Len(probe.moves) :
          /\ backend' = backend_make_move(backend, probe.moves[i])
          /\ probe' = [probe EXCEPT !.pc = "made", !.ply = probe.moves[i]]
    /\ UNCHANGED <<turn, castling_rights_log, en_passant_target, move_counter,
                   move_log, repetition_table, outcome, in_check, last_call, trail, undos,
                   engine, tools, units>>

BackendUndoMove ==
    /\ probe.pc = "made"
    /\ backend' = backend_undo_move(backend, probe.ply)
    /\ probe' = [probe EXCEPT !.pc = "undone"]
    /\ undos' = undos + 1
    /\ UNCHANGED <<turn, castling_rights_log, en_passant_target, move_counter,
                   move_log, repetition_table, outcome, in_check, last_call, trail, engine, tools, units>>

NextBackend ==
    \/ Generate
    \/ BackendMakeMove
    \/ BackendUndoMove

SpecBackend == Init /\ [][NextBackend]_vars

(***************************************************************************)
(* SpecCastleGenerator: the generator is probed on positions where one of  *)
(* the conditions of castling fails at a time: a square between king and   *)
(* rook is occupied, a rook is missing from its corner, an enemy rook      *)
(* looks down a file of the castling row or checks the king.  Each         *)
(* position is taken for White and, mirrored, for Black.                   *)
(***************************************************************************)
HomeRanks ==
    {<<"R", "3", "K", "2", "R">>, <<"R", "N", "2", "K", "2", "R">>,
     <<"R", "1", "B", "1", "K", "2", "R">>, <<"R", "2", "Q", "K", "2", "R">>,
     <<"R", "3", "K", "B", "1", "R">>, <<"R", "3", "K", "1", "N", "R">>,
     <<"R", "3", "K", "2", "N">>, <<"4", "K", "2", "R">>}

FarRanks ==
    {<<"4", "k", "3">>, <<"1", "r", "2", "k", "3">>, <<"2", "r", "1", "k", "3">>,
     <<"3", "r", "k", "3">>, <<"4", "k", "r", "2">>, <<"4", "k", "1", "r", "1">>}

NearRanks == {<<"8">>, <<"4", "r", "3">>}

(* The same rank with the teams exchanged. *)
SwapTeams(rank) ==
    [i \in 1..Len(rank) |->
        CASE rank[i] = "R" -> "r" [] rank[i] = "r" -> "R"
          [] rank[i] = "K" -> "k" [] rank[i] = "k" -> "K"
          [] rank[i] = "N" -> "n" [] rank[i] = "B" -> "b" [] rank[i] = "Q" -> "q"
          [] OTHER -> rank[i]]

CastlePositions ==
    {from_fen(Fen(<<far, <<"8">>, <<"8">>, <<"8">>, <<"8">>, <<"8">>, near, home>>,
                  <<"w">>, <<"K", "Q", "k", "q">>, <<"-">>, 0, 1)) :
        far \in FarRanks, near \in NearRanks, home \in HomeRanks}
    \cup
    {from_fen(Fen(<<SwapTeams(home), SwapTeams(near), <<"8">>, <<"8">>, <<"8">>, <<"8">>,
                    <<"8">>, SwapTeams(far)>>,
                  <<"b">>, <<"K", "Q", "k", "q">>, <<"-">>, 0, 1)) :
        far \in FarRanks, near \in NearRanks, home \in HomeRanks}

InitCastleGenerator == \E s \in CastlePositions : Constructed(s)

SpecCastleGenerator == InitCastleGenerator /\ [][NextBackend]_vars

(***************************************************************************)
(* The specification's notions the claims are stated with.                 *)
(***************************************************************************)

(* A king of the team stands on a square the other team attacks. *)
OwnKingAttacked(b, team) ==
    \E i \in 1..Len(AllCoordinates) :
        /\ get(b, AllCoordinates[i]) = Piece_new(team, "King")
        /\ is_square_under_attack(b, AllCoordinates[i], Team_opposite(team))

(* Legal move: pseudo-legal, and made on the board of s it does not leave  *)
(* the mover's king attacked.                                              *)
SafePlies(s) ==
    {ply \in Range(get_pseudo_legal_moves(s)) :
        ~OwnKingAttacked(backend_make_move(s.backend, ply), s.turn)}

(* How many positions of the game so far have this snapshot. *)
Occurrences(snapshot) == Cardinality({i \in 1..Len(trail) : trail[i] = snapshot})

(* The count the repetition table holds for the current position. *)
RepetitionCount(s) ==
    IF create_snapshot(s) \in DOMAIN s.repetition_table
    THEN s.repetition_table[create_snapshot(s)]
    ELSE 0

(* The en-passant move, if ply is one, lands on an empty square and takes  *)
(* a pawn of the other team that stands on the square it removes.          *)
EnPassantIsCapture(b, ply) ==
    ply.special_move.tag = "EnPassant" =>
        /\ get(b, ply.ending_square) = NoPiece
        /\ get(b, ply.special_move.coord) =
               Piece_new(Team_opposite(ply.piece_moved.team), "Pawn")

MakeMoveApplied == last_call.op = "make_move" /\ last_call.result = "applied"

(***************************************************************************)
(* C1.  Make/undo symmetry of the Position Controller: in every reachable  *)
(* position with no outcome set, make_move of any legal move followed by   *)
(* undo_last_move gives back a BoardFrontend equal in every field.         *)
(* The code does not satisfy it: untick does not restore the fullmove      *)
(* clock tick left alone, and the en-passant target of a loaded position   *)
(* is not restored.                                                        *)
(***************************************************************************)
C1_MakeThenUndoRestores ==
    outcome = NoOutcome =>
        \A ply \in Range(get_legal_moves(Self).legal_moves) :
            undo_last_move(make_move(Self, ply)) = Self

(***************************************************************************)
(* C2.  BoardBackend::undo_move after BoardBackend::make_move gives back   *)
(* the board, grid and cached king locations, for every move the generator *)
(* emits for a piece of the board under any castling rights and any        *)
(* en-passant target whose en-passant move takes a pawn that is there.     *)
(***************************************************************************)
C2_BackendUndoRestores ==
    probe.pc = "undone" /\ EnPassantIsCapture(probe.before, probe.ply)
        => backend = probe.before

(* C2 witness: an en-passant capture made and undone. *)
C2_Witness ==
    /\ probe.pc = "undone"
    /\ probe.ply.special_move.tag = "EnPassant"
    /\ EnPassantIsCapture(probe.before, probe.ply)
    /\ backend = probe.before

(* C2 as stated: for any en-passant target handed to the generator. *)
C2_AnyEnPassantTarget == probe.pc = "undone" => backend = probe.before

(***************************************************************************)
(* C3.  get_legal_moves returns exactly the pseudo-legal moves of the side *)
(* to move that do not leave that side's king attacked.                    *)
(***************************************************************************)
C3_LegalMovesExact == Range(get_legal_moves(Self).legal_moves) = SafePlies(Self)

(* C3 witness: a position where some candidate is rejected and some kept. *)
C3_Witness ==
    /\ SafePlies(Self) # {}
    /\ Range(get_pseudo_legal_moves(Self)) \ SafePlies(Self) # {}
    /\ Range(get_legal_moves(Self).legal_moves) = SafePlies(Self)

(***************************************************************************)
(* C4.  get_legal_moves leaves every field of the position as it was.      *)
(***************************************************************************)
C4_LegalMovesKeepsPosition == last_call.op = "get_legal_moves" => Self = last_call.before

(* C4 witness: the call returned in a position with a rejected and an      *)
(* accepted capture or move.                                               *)
C4_Witness ==
    /\ last_call.op = "get_legal_moves"
    /\ Range(get_legal_moves(last_call.before).legal_moves) # {}
    /\ Len(get_legal_moves(last_call.before).legal_moves)
           < Len(get_pseudo_legal_moves(last_call.before))
    /\ Self = last_call.before

(***************************************************************************)
(* C5.  With an outcome set make_move changes no field, whatever the ply;  *)
(* undo_last_move of a logged move clears the outcome.                     *)
(***************************************************************************)
C5_MakeMoveAfterOutcome ==
    /\ last_call.op = "make_move" /\ last_call.before.outcome # NoOutcome
           => Self = last_call.before
    /\ last_call.op = "undo_last_move" /\ last_call.result = "undone"
           => outcome = NoOutcome

(* C5 witness: make_move was called on a finished game. *)
C5_Witness ==
    /\ last_call.op = "make_move"
    /\ last_call.before.outcome # NoOutcome
    /\ Self = last_call.before

(***************************************************************************)
(* C6.  After a move is made: no legal move and king attacked is a win by  *)
(* checkmate for the side that moved; no legal move and king not attacked  *)
(* is a draw by stalemate; with a legal move neither is reported.          *)
(***************************************************************************)
C6_MateDetection ==
    MakeMoveApplied =>
        /\ SafePlies(Self) = {} /\ OwnKingAttacked(backend, turn)
               => outcome = Win(Team_opposite(turn), "Checkmate")
        /\ SafePlies(Self) = {} /\ ~OwnKingAttacked(backend, turn)
               => outcome = Draw("Stalemate")
        /\ SafePlies(Self) # {} => outcome.reason \notin {"Checkmate", "Stalemate"}

(* C6 witness: a move that mates. *)
C6_Witness ==
    /\ MakeMoveApplied
    /\ SafePlies(Self) = {}
    /\ OwnKingAttacked(backend, turn)
    /\ outcome = Win(last_call.ply.piece_moved.team, "Checkmate")

(***************************************************************************)
(* C7.  Whenever the board holds only the two kings the outcome is Draw by *)
(* DeadPosition.  The code does not satisfy it: a position loaded from     *)
(* notation with bare kings has no outcome.                                *)
(***************************************************************************)
C7_BareKingsAreDrawn == IsDeadPosition(backend) => outcome = Draw("DeadPosition")

(***************************************************************************)
(* C8.  When a move brings the 3rd occurrence of a PositionSnapshot in the *)
(* game, the initial position included, the repetition is claimable and    *)
(* not forced; when it brings the 5th, the outcome is Draw by repetition.  *)
(* The code does not satisfy it: a game from the starting position does    *)
(* not count its initial position.                                          *)
(***************************************************************************)
C8_RepetitionThresholds ==
    MakeMoveApplied =>
        /\ Occurrences(create_snapshot(Self)) = CAN_CLAIM_THREEFOLD_REPETITION_THRESHOLD
               => /\ can_claim_threefold_repetition(Self)
                  /\ outcome # Draw("ThreefoldRepetition")
        /\ Occurrences(create_snapshot(Self)) = FORCED_THREEFOLD_REPETITION_THRESHOLD
               => outcome = Draw("ThreefoldRepetition")

(***************************************************************************)
(* C9.  After a move is made the fifty-move counter is 0 after a pawn move *)
(* or a capture and one more than before otherwise; when it has reached    *)
(* 150 the outcome is Draw by FiftyMoveRule unless the move mated,         *)
(* stalemated or completed a fivefold repetition; the draw is claimable    *)
(* exactly when the counter is at least 100.                               *)
(***************************************************************************)
C9_Counter ==
    fifty_move_rule_counter(move_counter) =
        IF \/ last_call.ply.piece_moved.kind = "Pawn"
           \/ last_call.ply.piece_captured # NoPiece
        THEN 0
        ELSE fifty_move_rule_counter(last_call.before.move_counter) + 1

C10_DrawClaims ==
    /\ last_call.op = "claim_threefold_repetition" =>
          IF RepetitionCount(last_call.before) < 3
          THEN last_call.result = "Err" /\ Self = last_call.before
          ELSE /\ last_call.result = "Ok"
               /\ Self = [last_call.before EXCEPT !.outcome = Draw("ThreefoldRepetition")]
    /\ last_call.op = "claim_fifty_move_rule" =>
          IF fifty_move_rule_counter(last_call.before.move_counter) < 100
          THEN last_call.result = "Err" /\ Self = last_call.before
          ELSE /\ last_call.result = "Ok"
               /\ Self = [last_call.before EXCEPT !.outcome = Draw("FiftyMoveRule")]

(* C10 witness: a repetition claim granted on an undecided game whose      *)
(* fifty-move claim would still be refused.                                *)
C10_Witness ==
    /\ last_call.op = "claim_threefold_repetition"
    /\ last_call.result = "Ok"
    /\ last_call.before.outcome = NoOutcome
    /\ outcome = Draw("ThreefoldRepetition")
    /\ ~can_claim_fifty_move_rule(Self)

CastlingFlags ==
    {"white_king_side", "white_queen_side", "black_king_side", "black_queen_side"}

(* The team that holds a castling right and the corner its rook starts on. *)
TeamOfRight(flag) ==
    IF flag \in {"white_king_side", "white_queen_side"} THEN White ELSE Black

CornerOfRight(flag) ==
    CASE flag = "white_king_side" -> Coordinates_new(BOARD_ROWS - 1, BOARD_COLUMNS - 1)
      [] flag = "white_queen_side" -> Coordinates_new(BOARD_ROWS - 1, 0)
      [] flag = "black_king_side" -> Coordinates_new(0, BOARD_COLUMNS - 1)
      [] flag = "black_queen_side" -> Coordinates_new(0, 0)

(* The move is one of those said to clear the right. *)
ClearsRight(flag, ply) ==
    \/ ply.piece_moved.kind = "King" /\ ply.piece_moved.team = TeamOfRight(flag)
    \/ ply.piece_moved.kind = "Rook" /\ ply.starting_square = CornerOfRight(flag)
    \/ ply.piece_captured # NoPiece /\ ply.ending_square = CornerOfRight(flag)

(***************************************************************************)
(* C11.  Castling rights never come back: along a sequence of make_move    *)
(* calls, with no undo and no reload, a right that is false in the rights  *)
(* current after one move is false in the rights current after every later *)
(* move.  The log holds the rights current after each move of the game.    *)
(***************************************************************************)
C11_CastlingRightsNeverReturn ==
    \A i, j \in 1..Len(castling_rights_log) :
        i < j => \A flag \in CastlingFlags :
                     castling_rights_log[j][flag] => castling_rights_log[i][flag]

(* Two moves in a row have each taken rights away. *)
C11_Witness ==
    /\ Len(castling_rights_log) >= 3
    /\ Len(castling_rights_log) = Len(move_log) + 1
    /\ castling_rights_log[2] # castling_rights_log[1]
    /\ castling_rights_log[3] # castling_rights_log[2]
    /\ \E flag \in CastlingFlags : castling_rights_log[3][flag]

C12_DepthPriorityReplacement ==
    last_insert # NoInsert =>
        LET key == last_insert.snapshot
            stored == TranspositionTable_get(last_insert.before, key)
        IN  /\ DOMAIN tt = DOMAIN last_insert.before \cup {key}
            /\ tt[key] = IF stored = NoEntry \/ last_insert.entry.depth >= stored.depth
                         THEN last_insert.entry
                         ELSE stored
            /\ stored # NoEntry => tt[key].depth >= stored.depth
            /\ \A other \in DOMAIN last_insert.before \ {key} :
                   tt[other] = last_insert.before[other]

(* A shallower entry was refused while another snapshot had its entry. *)
C12_Witness ==
    /\ last_insert # NoInsert
    /\ DOMAIN last_insert.before = TableSnapshots
    /\ last_insert.entry.depth < last_insert.before[last_insert.snapshot].depth
    /\ tt = last_insert.before
    /\ tt[last_insert.snapshot] # last_insert.entry

(* The legal moves of s after which the opponent is checkmated. *)
MatingMoves(s) ==
    {ply \in Range(get_legal_moves(s).legal_moves) :
        make_move(s, ply).outcome = Win(s.turn, "Checkmate")}

C14_FenRoundTrip ==
    notation.input \in ValidFens =>
        /\ notation.pc # "idle" => notation.parsed.tag = "Ok"
        /\ notation.pc = "reparsed" =>
               /\ notation.reparsed.tag = "Ok"
               /\ notation.reparsed.position = notation.parsed.position

(* The round trip of the well-formed strings whose clocks fit in a usize. *)
FitsUsize(input) ==
    \A i \in 1..(Len(input) - 19) : \E j \in i..(i + 19) : ~is_ascii_digit(input[j])

C14_FenRoundTripOfSmallClocks ==
    (notation.input \in ValidFens /\ FitsUsize(notation.input)) =>
        /\ notation.pc # "idle" => notation.parsed.tag = "Ok"
        /\ notation.pc = "reparsed" =>
               /\ notation.reparsed.tag = "Ok"
               /\ notation.reparsed.position = notation.parsed.position
               /\ notation.reparsed.move_counter = notation.parsed.move_counter

(* C15: from_fen returns a FenParsingError for every malformed string: it  *)
(* neither returns Ok nor panics.                                          *)
C15_MalformedIsError ==
    (notation.pc # "idle" /\ notation.input \in MalformedFens) =>
        notation.parsed.tag = "Err"

(* The malformed strings that do not lack a clock field. *)
LacksClock(input) == Len(SelectSeq(input, LAMBDA c : c = " ")) < 5

C15_MalformedWithClocksIsError ==
    (notation.pc # "idle" /\ notation.input \in MalformedFens
     /\ ~LacksClock(notation.input)) =>
        notation.parsed.tag = "Err"

C17_ParallelPerft ==
    (last_call.op = "root_level_perft" /\ bench.depth >= 2) =>
        /\ bench.pc = "returned" =>
               /\ bench.result = perft(last_call.before, bench.depth).results
               /\ Self = last_call.before
               /\ bench.moves = get_legal_moves(last_call.before).legal_moves
               /\ Len(bench.handles) = Len(bench.moves)
               /\ \A i \in 1..Len(bench.handles) :
                      /\ bench.handles[i].finished
                      /\ bench.handles[i].m = bench.moves[i]
        /\ \A i \in 1..Len(bench.handles) :
               bench.handles[i].board_clone = last_call.before
        /\ bench.pc # "returned" => bench.result = PerftResults_new

C17_Witness ==
    /\ last_call.op = "root_level_perft"
    /\ bench.pc = "returned"
    /\ bench.depth = 3
    /\ Len(bench.handles) = 7
    /\ bench.result.nodes > Len(bench.handles)

(* C19: after a move that make_move applied, the en-passant target is the  *)
(* square between the start and the end of the move, on their column, when *)
(* the moved piece is a pawn and the two rows differ by 2, and none after  *)
(* any other move.                                                         *)
C19_EnPassantTargetAfterMove ==
    MakeMoveApplied =>
        LET ply == last_call.ply
            double_push ==
                /\ ply.piece_moved.kind = "Pawn"
                /\ abs_diff(Row(ply.starting_square), Row(ply.ending_square)) = 2
        IN  /\ double_push =>
                /\ Column(ply.starting_square) = Column(ply.ending_square)
                /\ en_passant_target =
                       <<(Row(ply.starting_square) + Row(ply.ending_square)) \div 2,
                         Column(ply.starting_square)>>
            /\ ~double_push => en_passant_target = NoCoordinates

C19_Witness ==
    /\ MakeMoveApplied
    /\ last_call.ply.piece_moved = Piece_new(Black, "Pawn")
    /\ abs_diff(Row(last_call.ply.starting_square), Row(last_call.ply.ending_square)) = 2
    /\ en_passant_target # NoCoordinates
    /\ last_call.before.en_passant_target # NoCoordinates

(* C20: after undo_last_move has undone a move, the en-passant target is   *)
(* the one of the position before that move, also when that position was   *)
(* loaded from notation with a target and the move log is empty again.     *)
C20_UndoRestoresEnPassantTarget ==
    (last_call.op = "undo_last_move" /\ last_call.result = "undone") =>
        en_passant_target = trail[Len(trail)].en_passant

(* C21: each untick restores the fifty-move counter, and the whole stack   *)
(* under it, to what it was before the tick it matches, whatever the flags *)
(* of the ticks and the clock the counter was built with.                  *)
C21_UntickRestoresFiftyMoveCounter ==
    clock.op = "untick" =>
        /\ fifty_move_rule_counter(clock.counter) = fifty_move_rule_counter(clock.matched)
        /\ clock.counter.fifty_move_rule_counter = clock.matched.fifty_move_rule_counter

(* C21, amended: the same as long as no tick has found the clock at        *)
(* usize::MAX.                                                             *)
C21_UntickRestoresBelowSaturation ==
    clock.op = "untick" /\ ~clock.saturated =>
        /\ fifty_move_rule_counter(clock.counter) = fifty_move_rule_counter(clock.matched)
        /\ clock.counter.fifty_move_rule_counter = clock.matched.fifty_move_rule_counter

(* The tick of a resetting move is undone after a later tick and its       *)
(* untick, and the clock is back at the value it had before the reset.     *)
C21_Witness ==
    /\ clock.op = "untick"
    /\ ~clock.saturated
    /\ clock.reset
    /\ clock.calls = 4
    /\ fifty_move_rule_counter(clock.matched) = MaxClock
    /\ fifty_move_rule_counter(clock.counter) = MaxClock

(* C22: tick followed by untick leaves the halfmove count and the fullmove *)
(* number as they were before the tick.                                    *)
C22_UntickRestoresMoveNumbers ==
    clock.op = "untick" =>
        /\ clock.counter.halfmove = clock.matched.halfmove
        /\ clock.counter.fullmove = clock.matched.fullmove

(* The halfmove count alone. *)
C22_UntickRestoresHalfmove ==
    clock.op = "untick" => clock.counter.halfmove = clock.matched.halfmove

(***************************************************************************)
(* C23.  In every state reached by make_move of legal moves and            *)
(* undo_last_move the grid holds exactly one king of each team, and the    *)
(* cached king locations are the squares the kings stand on.               *)
(***************************************************************************)
KingSquares(b, team) ==
    {c \in Range(AllCoordinates) : get(b, c) = Piece_new(team, "King")}

(* C23: one white and one black king, each on its cached location. *)
C23_KingInvariant ==
    /\ KingSquares(backend, White) = {backend.white_king_location}
    /\ KingSquares(backend, Black) = {backend.black_king_location}

(* A king has castled: it has left its square and the cache has followed. *)
C23_Witness ==
    /\ last_call.op = "make_move"
    /\ last_call.result = "applied"
    /\ last_call.ply.special_move.tag = "Castle"
    /\ last_call.ply.piece_moved = Piece_new(Black, "King")
    /\ backend.black_king_location = last_call.ply.ending_square
    /\ backend.black_king_location # last_call.before.backend.black_king_location
    /\ KingSquares(backend, Black) = {last_call.ply.ending_square}

(* A king move has been undone: the king and the cache are back. *)
C23_UndoneKingMove ==
    /\ last_call.op = "undo_last_move"
    /\ last_call.result = "undone"
    /\ backend = from_fen(FEN_BareKings).backend

(***************************************************************************)
(* C25.  The en-passant capture of the pawn generator and its execution by *)
(* BoardBackend::make_move.                                                *)
(***************************************************************************)
(* The squares one row ahead of the pawn on the two neighbouring columns. *)
ForwardDiagonals(pawn) ==
    LET forward_row == Row(pawn.position) + (IF pawn.piece.team = White THEN -1 ELSE 1)
    IN  {<<forward_row, column>> :
            column \in {Column(pawn.position) - 1, Column(pawn.position) + 1}
                       \cap (0..(BOARD_COLUMNS - 1))}
        \cap Range(AllCoordinates)

EnPassantPlies(moves) == {i \in 1..Len(moves) : moves[i].special_move.tag = "EnPassant"}

(* C25: an en-passant capture is generated for a pawn exactly when one of  *)
(* its two forward diagonal squares is the supplied target; it goes from   *)
(* the pawn's square to the target and captures an enemy pawn on the       *)
(* pawn's row and the target's column, which is not the target; once made, *)
(* the pawn stands on the target and the square it left and the square of  *)
(* the captured pawn are empty.                                            *)
C25_EnPassantCapture ==
    /\ probe.pc = "generated" /\ probe.piece.piece.kind = "Pawn" =>
          /\ (EnPassantPlies(probe.moves) # {}) <=>
                 (probe.en_passant_target \in ForwardDiagonals(probe.piece))
          /\ Cardinality(EnPassantPlies(probe.moves)) <= 1
          /\ \A i \in EnPassantPlies(probe.moves) :
                LET ply == probe.moves[i]
                IN  /\ ply.starting_square = probe.piece.position
                    /\ ply.ending_square = probe.en_passant_target
                    /\ ply.piece_moved = probe.piece.piece
                    /\ ply.piece_captured =
                           Piece_new(Team_opposite(probe.piece.piece.team), "Pawn")
                    /\ ply.special_move.coord =
                           <<Row(probe.piece.position), Column(probe.en_passant_target)>>
                    /\ ply.special_move.coord # ply.ending_square
    /\ probe.pc = "made" /\ probe.ply.special_move.tag = "EnPassant" =>
          /\ get(backend, probe.ply.ending_square) = probe.ply.piece_moved
          /\ get(backend, probe.ply.starting_square) = NoPiece
          /\ get(backend, probe.ply.special_move.coord) = NoPiece

(* The capture d4 takes e3 of the loaded position has been made: the pawn  *)
(* that had advanced two squares stood beside the capturing pawn.          *)
C25_Witness ==
    /\ probe.pc = "made"
    /\ probe.ply.special_move.tag = "EnPassant"
    /\ probe.before = from_fen(FEN_EnPassant).backend
    /\ get(probe.before, probe.ply.special_move.coord) = probe.ply.piece_captured
    /\ probe.en_passant_target = from_fen(FEN_EnPassant).en_passant_target

(***************************************************************************)
(* C24.  The conditions of castling, stated from the king's square.        *)
(***************************************************************************)
CastlingRow(team) == IF team = White THEN BOARD_ROWS - 1 ELSE 0

RightOf(rights, team, side) ==
    CASE team = White /\ side = "Short" -> rights.white_king_side
      [] team = White /\ side = "Long" -> rights.white_queen_side
      [] team = Black /\ side = "Short" -> rights.black_king_side
      [] team = Black /\ side = "Long" -> rights.black_queen_side

(* The corner of the rook and the column the king lands on. *)
RookColumn(side) == IF side = "Short" THEN BOARD_COLUMNS - 1 ELSE 0
KingTarget(side) == IF side = "Short" THEN 6 ELSE 2

Between(a, b) == {column \in 0..(BOARD_COLUMNS - 1) : (a < column /\ column < b) \/ (b < column /\ column < a)}

CanCastle(b, king, rights, side) ==
    LET ally == king.piece.team
        enemy == Team_opposite(ally)
        row == CastlingRow(ally)
        from == Column(king.position)
    IN  /\ RightOf(rights, ally, side)
        /\ ~is_square_under_attack(b, king.position, enemy)
        /\ \A column \in Between(from, RookColumn(side)) : get(b, <<row, column>>) = NoPiece
        /\ \A column \in Between(from, KingTarget(side)) \cup {KingTarget(side)} :
               ~is_square_under_attack(b, <<row, column>>, enemy)
        /\ get(b, <<row, RookColumn(side)>>) = Piece_new(ally, "Rook")

CastlePlies(moves, side) ==
    {i \in 1..Len(moves) :
        moves[i].special_move.tag = "Castle" /\ moves[i].special_move.side = side}

(* C24: the king's generator emits the castle of a side exactly when the   *)
(* right is held, the king is not attacked, the squares between king and   *)
(* rook are empty, the squares the king crosses and lands on are not       *)
(* attacked and a rook of the team stands on the corner; the move goes     *)
(* from the king's square to the g or c file of the castling row.          *)
C24_CastlingMoves ==
    probe.pc = "generated" /\ probe.piece.piece.kind = "King" =>
        \A side \in {"Short", "Long"} :
            /\ (CastlePlies(probe.moves, side) # {}) <=>
                   CanCastle(probe.before, probe.piece, probe.castling_rights, side)
            /\ Cardinality(CastlePlies(probe.moves, side)) <= 1
            /\ \A i \in CastlePlies(probe.moves, side) :
                  /\ probe.moves[i].starting_square = probe.piece.position
                  /\ probe.moves[i].ending_square =
                         <<CastlingRow(probe.piece.piece.team), KingTarget(side)>>
                  /\ probe.moves[i].piece_moved = probe.piece.piece
                  /\ probe.moves[i].piece_captured = NoPiece

(* The long castle is emitted although the b file is attacked, and the     *)
(* short one too.                                                          *)
C24_Witness ==
    /\ probe.pc = "generated"
    /\ probe.piece.piece = Piece_new(Black, "King")
    /\ CastlePlies(probe.moves, "Long") # {}
    /\ CastlePlies(probe.moves, "Short") # {}
    /\ is_square_under_attack(probe.before, <<0, 1>>, White)

(* The right is held and the castle is withheld because the king would     *)
(* cross an attacked square.                                               *)
C24_WithheldThroughCheck ==
    /\ probe.pc = "generated"
    /\ probe.piece.piece = Piece_new(White, "King")
    /\ probe.castling_rights.white_queen_side
    /\ CastlePlies(probe.moves, "Long") = {}
    /\ CastlePlies(probe.moves, "Short") # {}
    /\ is_square_under_attack(probe.before, <<7, 3>>, Black)
    /\ ~is_square_under_attack(probe.before, <<7, 4>>, Black)
    /\ \A column \in 1..3 : get(probe.before, <<7, column>>) = NoPiece

(***************************************************************************)
(* C26 to C29.  One call of alpha_beta: what it was given, the entry the   *)
(* table held for the position, what it returned and what it stored.       *)
(***************************************************************************)
NodeSnapshot == create_snapshot(node.state)
NodeEntry == TranspositionTable_get(node.before, NodeSnapshot)
NodeStored == TranspositionTable_get(node.returned.tt, NodeSnapshot)
NodeMoves == get_legal_moves(node.state).legal_moves

(* The call has gone through the loop over the moves. *)
NodeSearched ==
    /\ node.pc = "returned"
    /\ node.state.outcome = NoOutcome
    /\ NodeMoves # <<>>
    /\ NodeStored # NoEntry
    /\ NodeStored.depth = node.depth
    /\ NodeStored # NodeEntry


(* The table before the call with another score, marked exact, in the      *)
(* entry of the position; its depth and its move are kept.                 *)
NodeRescored ==
    HashMap_insert(node.before, NodeSnapshot,
                   Entry(NodeEntry.score + 1, NodeEntry.depth, "Exact", NodeEntry.best_move))

(* C26: when the table holds an entry of the position that is shallower    *)
(* than the depth asked for, the score, the move and the table that        *)
(* alpha_beta returns do not depend on the score and the bound type of the *)
(* entry (no early return, no narrowed window); an exact entry that is     *)
(* deep enough is returned as it is and the table is left alone.           *)
C26_ShallowEntryIsOnlyAHint ==
    /\ node.pc = "returned" /\ NodeEntry # NoEntry /\ NodeEntry.depth < node.depth =>
          node.returned = alpha_beta(node.state, node.depth, node.alpha, node.beta,
                                     NodeRescored)
    /\ node.pc = "returned" /\ NodeEntry # NoEntry /\ NodeEntry.depth >= node.depth
       /\ NodeEntry.node_type = "Exact" =>
          /\ node.returned.score = NodeEntry.score
          /\ node.returned.tt = node.before

(* A shallower entry whose bound lies inside the window asked for: had it  *)
(* been trusted the window would have been narrowed.                       *)
C26_Witness ==
    /\ node.pc = "returned"
    /\ NodeEntry # NoEntry
    /\ NodeEntry.depth < node.depth
    /\ NodeEntry.node_type = "Lower"
    /\ node.alpha < NodeEntry.score
    /\ NodeEntry.score < node.beta
    /\ NodeSearched

(* A shallower exact entry, and another score is returned. *)
C26_ShallowExactEntry ==
    /\ node.pc = "returned"
    /\ NodeEntry.depth < node.depth
    /\ NodeEntry.node_type = "Exact"
    /\ node.returned.score # NodeEntry.score

(* The order in which the call went through the moves. *)
NodeOrder == MoveOrdering(NodeMoves, NodeEntry.best_move)

(* The searched moves but the hash move come by decreasing score_move. *)
OthersByDecreasingScore ==
    LET others == SelectSeq(NodeOrder, LAMBDA m : m # NodeEntry.best_move)
    IN  \A i \in 1..(Len(others) - 1) : score_move(others[i]) >= score_move(others[i + 1])

(* C27: when the table supplies a hash move that is among the legal moves  *)
(* it is searched first, and the other moves follow by decreasing          *)
(* score_move (10 times the value of the victim less the value of the      *)
(* aggressor, plus the promotion bonus).                                   *)
C27_HashMoveFirst ==
    NodeSearched /\ NodeEntry.best_move \in Range(NodeMoves) =>
        /\ NodeOrder[1] = NodeEntry.best_move
        /\ OthersByDecreasingScore

(* The order of the moves other than the hash move alone. *)
C27_OthersOrdered == NodeSearched => OthersByDecreasingScore

(* The hash move is searched last. *)
C27_HashMoveLast ==
    NodeSearched /\ NodeEntry.best_move \in Range(NodeMoves) =>
        NodeOrder[Len(NodeOrder)] = NodeEntry.best_move

(* The bound type of a score against a window. *)
Classified(score, alpha, beta) ==
    IF score <= alpha THEN "Upper" ELSE IF score >= beta THEN "Lower" ELSE "Exact"

(* The entry of a deep enough lower or upper bound has narrowed the window *)
(* the call was given.                                                     *)
NodeNarrowed ==
    /\ NodeEntry # NoEntry
    /\ NodeEntry.depth >= node.depth
    /\ \/ NodeEntry.node_type = "Lower" /\ NodeEntry.score > node.alpha
       \/ NodeEntry.node_type = "Upper" /\ NodeEntry.score < node.beta

(* C28: the entry a call stores is classified against the window the call  *)
(* was given: Upper when the best score did not exceed the alpha given,    *)
(* Lower when it is at least the beta given, Exact otherwise, also when an *)
(* entry of the table has narrowed the window at the start of the call.    *)
C28_BoundAgainstGivenWindow ==
    NodeSearched =>
        /\ NodeStored.score = node.returned.score
        /\ NodeStored.node_type = Classified(NodeStored.score, node.alpha, node.beta)

(* The same for the calls whose window no entry has narrowed. *)
C28_BoundWithoutNarrowing ==
    NodeSearched /\ ~NodeNarrowed =>
        /\ NodeStored.score = node.returned.score
        /\ NodeStored.node_type = Classified(NodeStored.score, node.alpha, node.beta)

RECURSIVE LastFound(_, _)
(* The move of the deepest of the first n depths that has left one. *)
LastFound(found, n) ==
    IF n = 0 THEN NoPly
    ELSE IF found[n] # NoPly THEN found[n]
    ELSE LastFound(found, n - 1)

(* C30: the depths searched are 1, 2, 3, ... in this order; best_move does *)
(* not return before depth 1 is completed, returns only after a completed  *)
(* depth, never searches a depth above MAX_DEPTH and returns the move of   *)
(* the deepest completed depth that has left one.                          *)
C30_IterativeDeepening ==
    /\ search.depths = [i \in 1..Len(search.depths) |-> STARTING_DEPTH + i - 1]
    /\ Len(search.depths) <= MAX_DEPTH
    /\ search.pc \in {"searching", "returned"} =>
          /\ search.current_depth = STARTING_DEPTH + Len(search.depths)
          /\ Len(search.found) = Len(search.depths)
          /\ search.best_ply = LastFound(search.found, Len(search.found))
    /\ search.pc = "searching" => search.current_depth <= MAX_DEPTH
    /\ search.pc = "returned" => Len(search.depths) >= 1

(* The budget has run out after depth 2 and the move of depth 2 is         *)
(* returned.                                                               *)
C30_Witness ==
    /\ search.pc = "returned"
    /\ search.depths = <<1, 2>>
    /\ search.found[2] # NoPly
    /\ search.best_ply = search.found[2]

(* The loop has stopped at the maximum depth. *)
C30_StoppedAtMaxDepth ==
    /\ search.pc = "returned"
    /\ Len(search.depths) = MAX_DEPTH
    /\ search.current_depth = MAX_DEPTH + 1

(* best_move has returned after depth 1 alone. *)
C30_ReturnedAfterDepthOne ==
    /\ search.pc = "returned"
    /\ search.depths = <<1>>
    /\ search.best_ply # NoPly

(***************************************************************************)
(* C31: the positions on which the search makes a move.  Without pruning   *)
(* alpha_beta expands every legal move of a position whose outcome is      *)
(* unset down to depth 0 and quiescence then every capture; a move made on *)
(* a finished position is a capture that quiescence finds there.           *)
(***************************************************************************)
RECURSIVE QuiescenceMakesOnFinished(_)
QuiescenceMakesOnFinished(state) ==
    LET captures == SelectSeq(get_legal_moves(state).legal_moves, IsCapture)
    IN  IF state.outcome # NoOutcome THEN captures # <<>>
        ELSE \E i \in 1..Len(captures) :
                QuiescenceMakesOnFinished(make_move(state, captures[i]))

RECURSIVE AlphaBetaMakesOnFinished(_, _)
AlphaBetaMakesOnFinished(state, depth) ==
    IF state.outcome # NoOutcome THEN FALSE
    ELSE IF depth = 0 THEN QuiescenceMakesOnFinished(state)
    ELSE \E m \in Range(get_legal_moves(state).legal_moves) :
            AlphaBetaMakesOnFinished(make_move(state, m), depth - 1)

(* C31: no make_move of alpha_beta or quiescence is applied to a position  *)
(* whose outcome is set, and when alpha_beta returns the board, the turn   *)
(* and the move log are those of the position it was called on.            *)
C31_MakeUndoPaired ==
    node.pc = "returned" =>
        /\ ~AlphaBetaMakesOnFinished(node.state, node.depth)
        /\ node.returned.state.backend = node.state.backend
        /\ node.returned.state.turn = node.state.turn
        /\ node.returned.state.move_log = node.state.move_log

(* Quiescence, entered at depth 0 with the full window, has made the       *)
(* capture Kxg8 that ends the game in a dead position, has searched the    *)
(* finished position (the score is that of the draw, not the stand-pat     *)
(* score) and has undone the capture.                                      *)
C31_Witness ==
    /\ node.pc = "returned"
    /\ node.depth = 0
    /\ node.alpha = ISIZE_MIN + 1 /\ node.beta = ISIZE_MAX - 1
    /\ node.state.backend = AlphaBetaCapture.backend
    /\ node.state.move_log # <<>>
    /\ \E m \in Range(get_legal_moves(node.state).legal_moves) :
          IsCapture(m) /\ make_move(node.state, m).outcome = Draw("DeadPosition")
    /\ evaluate_position(node.state) # DRAW_SCORE
    /\ node.returned.score = DRAW_SCORE
    /\ node.returned.state.move_log = node.state.move_log
    /\ node.returned.state.outcome = NoOutcome

(* alpha_beta has met a finished position with plies left: after Kxg8 at   *)
(* depth 2 the dead position is scored as a draw without a move made.      *)
C31_FinishedBelowRoot ==
    /\ node.pc = "returned"
    /\ node.depth = 2
    /\ node.state.backend = AlphaBetaCapture.backend
    /\ node.returned.score = DRAW_SCORE
    /\ node.returned.state.move_log = node.state.move_log

(***************************************************************************)
(* C32: the captures quiescence can make from a position, pruning left     *)
(* out: every legal capture of the position and of the positions after     *)
(* them.  The tree is bounded by n when no chain of captures is longer     *)
(* than n and every capture leaves fewer pieces on the board.              *)
(***************************************************************************)
PieceCount(state) == Len(get_all_pieces(state.backend))

NonKingPieces(state) ==
    LET IsNoKing(lp) == lp.piece.kind # "King"
    IN  Len(SelectSeq(get_all_pieces(state.backend), IsNoKing))

Captures(state) == SelectSeq(get_legal_moves(state).legal_moves, IsCapture)

RECURSIVE CapturesBounded(_, _)
CapturesBounded(state, n) ==
    \A i \in 1..Len(Captures(state)) :
        LET child == make_move(state, Captures(state)[i])
        IN  /\ n > 0
            /\ PieceCount(child) < PieceCount(state)
            /\ CapturesBounded(child, n - 1)

RECURSIVE LongestCaptureChain(_)
LongestCaptureChain(state) ==
    LET lengths == {1 + LongestCaptureChain(make_move(state, Captures(state)[i])) :
                       i \in 1..Len(Captures(state))}
    IN  IF lengths = {} THEN 0 ELSE CHOOSE n \in lengths : \A k \in lengths : k <= n

(* C32: quiescence returns; every capture it can make leaves strictly      *)
(* fewer pieces on the board, and no chain of nested calls is longer than  *)
(* the number of pieces other than the kings.                              *)
C32_QuiescenceTerminates ==
    node.pc = "quiesced" =>
        /\ CapturesBounded(node.state, NonKingPieces(node.state))
        /\ node.returned.score \in ISIZE_MIN..ISIZE_MAX

(* Quiescence has returned from a position with six pieces besides the     *)
(* kings in which a chain of four nested captures exists.                  *)
C32_Witness ==
    /\ node.pc = "quiesced"
    /\ NonKingPieces(node.state) = 6
    /\ node.alpha = ISIZE_MIN + 1 /\ node.beta = ISIZE_MAX - 1
    /\ LongestCaptureChain(node.state) >= 4

(* Quiescence has returned from the position with the en-passant capture,  *)
(* whose captured pawn does not stand on the square the capture ends on.   *)
C32_EnPassantCapture ==
    /\ node.pc = "quiesced"
    /\ \E i \in 1..Len(Captures(node.state)) :
          Captures(node.state)[i].special_move.tag = "EnPassant"

(***************************************************************************)
(* C33: the exhaustive search.  Negamax scores a finished position as      *)
(* alpha_beta does, a position at depth 0 by quiescence with the full      *)
(* window, a position without legal moves by evaluate_position, and any    *)
(* other by the best of the negated scores of its moves.                   *)
(***************************************************************************)
Maximum(values) == CHOOSE v \in values : \A w \in values : w <= v

RECURSIVE Negamax(_, _)
Negamax(state, depth) ==
    IF state.outcome # NoOutcome THEN TerminalScore(state, depth)
    ELSE IF depth = 0 THEN quiescence(state, ISIZE_MIN + 1, ISIZE_MAX - 1).score
    ELSE IF get_legal_moves(state).legal_moves = <<>> THEN evaluate_position(state)
    ELSE Maximum({-Negamax(make_move(state, m), depth - 1) :
                     m \in Range(get_legal_moves(state).legal_moves)})

(* C33: each call of alpha_beta with the full window, on an empty table or *)
(* on the table the shallower iterations have left, returns the score of   *)
(* the exhaustive search to the same depth.                                *)
C33_SameAsNegamax ==
    node.pc = "iterated" => node.returned.score = Negamax(node.state, node.depth)

(* The same for the depths up to 3. *)
C33_SameAsNegamaxToDepthThree ==
    node.pc = "iterated" /\ node.depth <= 3 =>
        node.returned.score = Negamax(node.state, node.depth)

(* The iteration of depth 3 has returned the score of the exhaustive       *)
(* search on the table that the iterations of depth 1 and 2 have filled.   *)
C33_DepthThreeAgrees ==
    /\ node.pc = "iterated"
    /\ node.depth = 3
    /\ node.before # TranspositionTable_new
    /\ node.returned.score = Negamax(node.state, node.depth)

(***************************************************************************)
(* C34: what a piece attacks by the way it moves.  A knight attacks the    *)
(* squares one knight's jump away, a king the adjacent squares, a pawn the *)
(* two squares diagonally ahead of it (White moves towards row 0), a rook, *)
(* bishop or queen the squares on its lines up to the first occupied one.  *)
(***************************************************************************)
Sign(n) == IF n > 0 THEN 1 ELSE IF n < 0 THEN -1 ELSE 0

ClearBetween(b, from, to) ==
    LET rows == Row(to) - Row(from)
        columns == Column(to) - Column(from)
    IN  \A k \in 1..(max(abs_diff(rows, 0), abs_diff(columns, 0)) - 1) :
           get(b, <<Row(from) + k * Sign(rows), Column(from) + k * Sign(columns)>>) = NoPiece

Attacks(b, lp, location) ==
    LET rows == abs_diff(Row(location), Row(lp.position))
        columns == abs_diff(Column(location), Column(lp.position))
        straight == (rows = 0) # (columns = 0)
        diagonal == rows = columns /\ rows > 0
    IN  CASE lp.piece.kind = "Knight" -> {rows, columns} = {1, 2}
          [] lp.piece.kind = "King" -> max(rows, columns) = 1
          [] lp.piece.kind = "Pawn" ->
                 /\ columns = 1
                 /\ Row(location) - Row(lp.position)
                        = (IF lp.piece.team = White THEN -1 ELSE 1)
          [] lp.piece.kind = "Rook" -> straight /\ ClearBetween(b, lp.position, location)
          [] lp.piece.kind = "Bishop" -> diagonal /\ ClearBetween(b, lp.position, location)
          [] lp.piece.kind = "Queen" ->
                 (straight \/ diagonal) /\ ClearBetween(b, lp.position, location)

Attackers(b, location, attacker_team) ==
    {lp \in Range(filter_pieces(b, {attacker_team})) : Attacks(b, lp, location)}

(* The pieces of the team for which the generator returns a capture on the *)
(* square, en passant and castling left out.                               *)
Capturers(b, location, attacker_team) ==
    {lp \in Range(filter_pieces(b, {attacker_team})) :
        \E m \in Range(generate_pseudo_legal_moves(lp, b, NoCoordinates, no_rights)) :
            m.ending_square = location /\ m.piece_captured # NoPiece}

(* C34: on every board and for every square and team the probe answers    *)
(* true exactly when a piece of the team attacks the square by the way it  *)
(* moves, and, when a piece of the other team stands on the square,        *)
(* exactly when the generator returns a capture of it.                     *)
C34_ProbeAgreesWithGenerator ==
    \A location \in Range(AllCoordinates), attacker_team \in {White, Black} :
        /\ is_square_under_attack(backend, location, attacker_team)
               <=> Attackers(backend, location, attacker_team) # {}
        /\ get(backend, location).team = Team_opposite(attacker_team) =>
               Capturers(backend, location, attacker_team)
                   = Attackers(backend, location, attacker_team)

(* A move has been made, after which the probe has answered false for the  *)
(* king's square.  On the board a pawn is the only attacker of some        *)
(* square, and a rook, bishop or queen is kept from a square of its line   *)
(* by a piece in between.                                                  *)
C34_Witness ==
    /\ last_call.op = "make_move" /\ last_call.result = "applied"
    /\ ~in_check
    /\ \E location \in Range(AllCoordinates), attacker_team \in {White, Black} :
          /\ Attackers(backend, location, attacker_team) # {}
          /\ \A lp \in Attackers(backend, location, attacker_team) : lp.piece.kind = "Pawn"
    /\ \E location \in Range(AllCoordinates), attacker_team \in {White, Black} :
          /\ ~is_square_under_attack(backend, location, attacker_team)
          /\ \E lp \in Range(filter_pieces(backend, {attacker_team})) :
                /\ lp.piece.kind \in {"Rook", "Bishop", "Queen"}
                /\ lp.position # location
                /\ ~ClearBetween(backend, lp.position, location)
                /\ Attacks([backend EXCEPT !.grid =
                               [r \in DOMAIN @ |-> [c \in DOMAIN @[r] |->
                                   IF <<r, c>> \in {lp.position, location}
                                   THEN @[r][c] ELSE NoPiece]]],
                           lp, location)

(* A move has been made that gives check: the probe has answered true for  *)
(* the square of the king, which a piece of the other team attacks.        *)
C34_CheckFound ==
    /\ last_call.op = "make_move" /\ last_call.result = "applied"
    /\ in_check
    /\ \E location \in Range(AllCoordinates) :
          /\ get(backend, location) = Piece_new(turn, "King")
          /\ Attackers(backend, location, Team_opposite(turn)) # {}

(***************************************************************************)
(* C35: a castling right that is held in the current rights has the king   *)
(* of its team on the e file of its back rank and a rook of its team on    *)
(* its corner, and every castle among the legal moves starts from the      *)
(* king's home square.                                                     *)
(***************************************************************************)
KingHome(team) == Coordinates_new(CastlingRow(team), 4)

C35_RightsMatchBoard ==
    /\ \A flag \in CastlingFlags :
          current_castling_rights(Self)[flag] =>
              /\ get(backend, KingHome(TeamOfRight(flag)))
                     = Piece_new(TeamOfRight(flag), "King")
              /\ get(backend, CornerOfRight(flag)) = Piece_new(TeamOfRight(flag), "Rook")
    /\ \A m \in Range(get_legal_moves(Self).legal_moves) :
          m.special_move.tag = "Castle" => m.starting_square = KingHome(turn)

(* A rook has been taken on its corner by the rook of the other corner:    *)
(* neither side holds the right of that wing any more, both hold the other *)
(* one.                                                                    *)
C35_Witness ==
    /\ last_call.op = "make_move" /\ last_call.result = "applied"
    /\ last_call.ply.piece_moved.kind = "Rook"
    /\ last_call.ply.piece_captured # NoPiece
    /\ last_call.ply.piece_captured.kind = "Rook"
    /\ \E flag \in CastlingFlags :
          /\ last_call.ply.ending_square = CornerOfRight(flag)
          /\ current_castling_rights(last_call.before)[flag]
          /\ ~current_castling_rights(Self)[flag]
    /\ \E flag \in CastlingFlags : current_castling_rights(Self)[flag]

(* The second move of a game has been undone after a first move that had   *)
(* cleared a right: some rights are held and some are not.                 *)
C35_RightsAfterUndo ==
    /\ last_call.op = "undo_last_move" /\ last_call.result = "undone"
    /\ move_log # <<>>
    /\ \E flag \in CastlingFlags : current_castling_rights(Self)[flag]
    /\ \E flag \in CastlingFlags : ~current_castling_rights(Self)[flag]

(* A castle is among the legal moves. *)
C35_CastleOffered ==
    \E m \in Range(get_legal_moves(Self).legal_moves) : m.special_move.tag = "Castle"

(***************************************************************************)
(* C36.  The repetition table and the move log.                            *)
(***************************************************************************)

(* How many of the moves in the move log have reached this snapshot: the   *)
(* first entry of the trail is the position the game began with.           *)
ReachedByMoves(snapshot) ==
    Cardinality({i \in 2..Len(trail) : trail[i] = snapshot})

(* The entry from_fen makes for the position it loads; the starting        *)
(* position is constructed with an empty table.                            *)
InitialEntry(snapshot) ==
    IF trail[1] # create_snapshot(from_starting_position) /\ snapshot = trail[1]
    THEN 1
    ELSE 0

(* C36: in every state reached by make_move and undo_last_move every count *)
(* in the repetition table is at least 1, the count of a snapshot is the   *)
(* number of moves of the move log that reached it plus the initial entry  *)
(* of a position loaded from notation, a snapshot without such an          *)
(* occurrence has no entry, and so the table after an undo is the table    *)
(* before the undone move.                                                 *)
C36_RepetitionBookkeeping ==
    /\ Len(trail) = Len(move_log) + 1
    /\ \A snapshot \in DOMAIN repetition_table :
          /\ repetition_table[snapshot] >= 1
          /\ repetition_table[snapshot]
                = ReachedByMoves(snapshot) + InitialEntry(snapshot)
    /\ \A i \in 1..Len(trail) :
          ReachedByMoves(trail[i]) + InitialEntry(trail[i]) > 0
             => trail[i] \in DOMAIN repetition_table

(* A move has been undone that had reached its position for at least the   *)
(* second time: the entry is still there, one lower, and counts what the   *)
(* remaining moves reached.                                                *)
C36_Witness ==
    /\ last_call.op = "undo_last_move" /\ last_call.result = "undone"
    /\ \E snapshot \in DOMAIN repetition_table :
          /\ repetition_table[snapshot] >= 2
          /\ ReachedByMoves(snapshot) >= 1
    /\ Len(move_log) >= 4

(* A move has been undone that had reached its position for the first      *)
(* time: the entry is gone.                                                *)
C36_EntryRemoved ==
    /\ last_call.op = "undo_last_move" /\ last_call.result = "undone"
    /\ move_log # <<>>
    /\ \A snapshot \in DOMAIN repetition_table : repetition_table[snapshot] = 1
    /\ Cardinality(DOMAIN repetition_table) = Len(move_log) + InitialEntry(trail[1])

(***************************************************************************)
(* C37.  The order of the end-of-game tests of make_move.                  *)
(***************************************************************************)

(* The king of the side to move is attacked, by the movement geometry. *)
KingAttacked ==
    \E i \in 1..Len(AllCoordinates) :
        /\ get(backend, AllCoordinates[i]) = Piece_new(turn, "King")
        /\ Attackers(backend, AllCoordinates[i], Team_opposite(turn)) # {}

(* C37: after a move is made, a side to move without a legal move is       *)
(* checkmated when its king is attacked and stalemated otherwise, also     *)
(* when the move has taken the fifty-move counter to 150 or the repetition *)
(* count to 5; the outcome is the fifty-move draw exactly when the counter *)
(* has reached 150 and the move set no other outcome: no mate or           *)
(* stalemate, no fifth repetition, no dead position.                       *)
C37_OutcomePrecedence ==
    MakeMoveApplied =>
        LET stuck == SafePlies(Self) = {}
            other == \/ stuck
                     \/ RepetitionCount(Self) >= 5
                     \/ IsDeadPosition(backend)
        IN  /\ stuck =>
                  outcome = IF KingAttacked
                            THEN Win(Team_opposite(turn), "Checkmate")
                            ELSE Draw("Stalemate")
            /\ outcome = Draw("FiftyMoveRule")
                  <=> fifty_move_rule_counter(move_counter) >= 150 /\ ~other

(* The move that takes the counter to 150 mates. *)
C37_Witness ==
    /\ MakeMoveApplied
    /\ fifty_move_rule_counter(move_counter) = 150
    /\ SafePlies(Self) = {} /\ KingAttacked
    /\ outcome = Win(Team_opposite(turn), "Checkmate")

(* The move that takes the counter to 150 stalemates. *)
C37_StalemateAtThreshold ==
    /\ MakeMoveApplied
    /\ fifty_move_rule_counter(move_counter) = 150
    /\ SafePlies(Self) = {} /\ ~KingAttacked
    /\ outcome = Draw("Stalemate")

(* The move that takes the counter to 150 brings the position back for the *)
(* fifth time: the repetition is the outcome.                              *)
C37_RepetitionAtThreshold ==
    /\ MakeMoveApplied
    /\ fifty_move_rule_counter(move_counter) = 150
    /\ RepetitionCount(Self) >= 5
    /\ outcome = Draw("ThreefoldRepetition")

(* The move that takes the counter to 150 is a move of bare kings. *)
C37_DeadPositionAtThreshold ==
    /\ MakeMoveApplied
    /\ fifty_move_rule_counter(move_counter) = 150
    /\ outcome = Draw("DeadPosition")

(* The move that takes the counter to 150 sets no other outcome. *)
C37_FiftyMoveDraw ==
    /\ MakeMoveApplied
    /\ fifty_move_rule_counter(move_counter) = 150
    /\ SafePlies(Self) # {}
    /\ outcome = Draw("FiftyMoveRule")

(***************************************************************************)
(* C38.  An outcome that is set stays.                                     *)
(***************************************************************************)

(* The last operation was called on a finished game and was not an undo. *)
CalledOnFinished ==
    /\ last_call.op \notin {"new", "undo_last_move"}
    /\ last_call.before.outcome # NoOutcome

(* C38: an operation other than undo_last_move that is called when the     *)
(* outcome is set leaves the outcome as it was.  The code does not satisfy *)
(* it: resign, win_on_time, forfeit and the draw_* operations assign the   *)
(* outcome without looking at it, and so does a draw claim whose threshold *)
(* is met.                                                                 *)
C38_OutcomeStable ==
    CalledOnFinished => outcome = last_call.before.outcome

(* What does hold: make_move, get_legal_moves and a refused draw claim     *)
(* leave a set outcome, and every other field, as they were.               *)
C38_StableUnderMoves ==
    /\ CalledOnFinished
    /\ \/ last_call.op \in {"make_move", "get_legal_moves"}
       \/ last_call.result = "Err"
    => Self = last_call.before

(* A move has been offered to a game that is over. *)
C38_MoveOnFinished ==
    /\ CalledOnFinished
    /\ last_call.op = "make_move"
    /\ outcome = last_call.before.outcome

(* A checkmate has not been replaced by a resignation of the winner. *)
C38_CheckmateKept ==
    ~ /\ last_call.op = "resign"
      /\ last_call.before.outcome = Win(White, "Checkmate")
      /\ outcome = Win(Black, "Resign")

(* A checkmate has not been replaced by a draw claim. *)
C38_CheckmateNotClaimedAway ==
    ~ /\ last_call.op = "claim_fifty_move_rule"
      /\ last_call.before.outcome = Win(White, "Checkmate")
      /\ outcome = Draw("FiftyMoveRule")

(***************************************************************************)
(* C39.  The move of the engine callback and the position it is made on.   *)
(***************************************************************************)

(* The last engine callback has made its move on the position it had       *)
(* searched: the same board, turn, rights and en-passant target, with      *)
(* Black to move, and the move is one of its legal moves.                  *)
EngineMoveFresh ==
    /\ create_snapshot(app.engine.current_game) = create_snapshot(app.engine.before)
    /\ app.engine.before.turn = Black
    /\ app.engine.engine_ply \in Range(get_legal_moves(app.engine.before).legal_moves)

(* C39: whenever the engine callback has made a move, the move had been    *)
(* computed for the position it was made on and is a legal move of Black   *)
(* there, whatever the user has clicked in between.  The code does not     *)
(* satisfy it: the callback owns a clone of the game taken when it was     *)
(* scheduled, and an undo in the 100 ms before it fires changes the game   *)
(* of the signal, not the clone.                                           *)
C39_EngineMoveNeverStale ==
    app.engine.pc = "applied" => EngineMoveFresh

(* What does hold: as long as neither Undo nor Restart has been clicked    *)
(* the callback makes its move on the position it has searched.            *)
C39_FreshWithoutUndo ==
    app.engine.pc = "applied" /\ ~app.undone => EngineMoveFresh

(* The engine has answered the user's move. *)
C39_EngineAnswered ==
    /\ app.engine.pc = "applied" /\ ~app.undone
    /\ last_call.op = "make_move" /\ last_call.result = "applied"
    /\ turn = White

(* No move of Black has been made on the starting position with White to   *)
(* move.                                                                   *)
C39_NoBlackMoveForWhite ==
    ~ /\ app.engine.pc = "applied"
      /\ app.engine.before.turn = White
      /\ app.engine.before.move_log = <<>>
      /\ app.engine.engine_ply.piece_moved.team = Black

(* The game has been restarted after the engine has mated. *)
C39_Restarted ==
    /\ last_call.op = "on_restart"
    /\ last_call.before.outcome = Win(Black, "Checkmate")
    /\ move_log = <<>> /\ turn = White

====
